---- MODULE Spec2Model ----
(***************************************************************************)
(* Model of the credential core of backend/api: the OTP challenge engine,  *)
(* registration, login with account lockout, the password-reset flow, the  *)
(* session tokens and the API-key authenticator of auth_backends.py.       *)
(* Every request handler is one action; the database tables and the cache  *)
(* it touches are the variables.  Time is counted in minutes.              *)
(***************************************************************************)
EXTENDS Integers, FiniteSets, Sequences, TLC

VARIABLES
    now,          \* django.utils.timezone.now(), in minutes
    otps,         \* table EmailOTP: set of rows
    users,        \* table auth.User: set of rows [username, email, password]
    profiles,     \* table UserProfile: username -> [failed_login_attempts, lockout_until]
    outstanding,  \* table OutstandingToken: set of rows [jti, user]
    blacklisted,  \* table BlacklistedToken: set of jti
    api_keys,     \* table APIKey: key -> row
    cache,        \* django.core.cache: cache key -> [value, expires]
    usage,        \* table APIKeyUsage: the rows, in the order they were created
    notes,        \* table Note: the rows, in the order they were created
    posts,        \* table BlogPost: slug -> row
    issued,       \* history: (email, purpose) -> code of the challenge issued last
    procs,        \* the requests in progress in concurrent workers: worker ->
                  \* the statement it is at and its local variables
    last          \* the request handled last: its inputs, its response and
                  \* the rows it looked up, as they were when it arrived

vars == <<now, otps, users, profiles, outstanding, blacklisted,
          api_keys, cache, usage, notes, posts, issued, procs, last>>

keyvars == <<api_keys, cache, usage>>

contentvars == <<notes, posts>>

----------------------------------------------------------------------------
(* Bounds of the model *)

MaxTime == 20
TickMinutes == 10
MaxTokens == 4
KeyTickMinutes == 30    \* step of the clock in the API-key runs
MaxKeyTime == 90        \* latest time of day in the API-key runs
RateLimit == 2          \* rate_limit of the keys that have one
KeyExpiresAt == 45      \* expires_at of the key that expires
MaxUsage == 4           \* APIKeyUsage rows kept
MaxLen == 2             \* longest path and body of a signed request

Emails == {"a@x.com"}        \* the address the OTP flows are driven for
OtherEmail == "z@x.com"      \* a second address, with rows of its own
UnknownEmail == "n@x.com"    \* an address that never registers
Usernames == {"a", "b"}
Passwords == {"Str0ngP@ss", "0therP@ss"}
Codes == {"000001", "000002"}

(* Program constants *)

MAX_ATTEMPTS == 5
MAX_LOGIN_ATTEMPTS == 5
LOCKOUT_DURATION_MINUTES == 15
OTP_EXPIRY_MINUTES == 10
CACHE_TIMEOUT == 60     \* cache.set(..., 3600), in minutes
MinutesPerHour == 60
HoursPerDay == 24

REGISTRATION == "registration"
PASSWORD_RESET == "password_reset"
Purposes == {REGISTRATION, PASSWORD_RESET}

None == -1      \* NULL of a nullable timestamp / "no number in the body"

NoProcs == <<>>     \* requests are handled one at a time

----------------------------------------------------------------------------
(* models.py: EmailOTP *)

(* Variants with a slip, used to see that the properties below notice it. *)
is_expired_reversed(r) == now < r.expiry_time

is_expired_at_boundary(r) == now >= r.expiry_time

is_expired(r) == now > r.expiry_time

is_locked_strict(r) == r.attempts > MAX_ATTEMPTS

is_locked(r) == r.attempts >= MAX_ATTEMPTS

increment_attempts_unsaved(r) == r

increment_attempts(r) == [r EXCEPT !.attempts = r.attempts + 1]

(* email_service.py *)

generate_otp == Codes

get_otp_expiry == now + OTP_EXPIRY_MINUTES

NewOTP(email, purpose, otp) ==
    [email |-> email, otp |-> otp, purpose |-> purpose,
     expiry_time |-> get_otp_expiry, is_verified |-> FALSE, attempts |-> 0]

(* QuerySet.filter(...).first() under Meta.ordering = ['-created_at']:    *)
(* a row created last; created_at = expiry_time - 10 minutes.  Rows       *)
(* created at the same instant are returned in an unspecified order.      *)
First(S) == {r \in S : \A q \in S : q.expiry_time <= r.expiry_time}

ByEmail(email) == {r \in otps : r.email = email}

ByEmailPurpose(email, purpose) ==
    {r \in otps : r.email = email /\ r.purpose = purpose}

(* QuerySet.delete() of the four places that remove challenges *)

send_otp_keep(email) == otps

send_otp_delete(email) == otps \ ByEmail(email)

forgot_password_delete(email) == otps \ ByEmailPurpose(email, PASSWORD_RESET)

register_keep(email) == otps

register_delete(email) == otps \ ByEmail(email)

reset_password_keep(email) == otps

reset_password_delete(email) == otps \ ByEmailPurpose(email, PASSWORD_RESET)

(* models.py: UserProfile *)

is_locked_out_reversed(p) == p.lockout_until # None /\ now > p.lockout_until

is_locked_out(p) == p.lockout_until # None /\ now < p.lockout_until

(* Variant with a slip: the account locks on the fifth failure only. *)
record_failed_login_once(p) ==
    LET n == p.failed_login_attempts + 1
    IN  [failed_login_attempts |-> n,
         lockout_until |-> IF n = MAX_LOGIN_ATTEMPTS
                             THEN now + LOCKOUT_DURATION_MINUTES
                             ELSE p.lockout_until]

record_failed_login_late(p) ==
    LET n == p.failed_login_attempts + 1
    IN  [failed_login_attempts |-> n,
         lockout_until |-> IF n > MAX_LOGIN_ATTEMPTS
                             THEN now + LOCKOUT_DURATION_MINUTES
                             ELSE p.lockout_until]

record_failed_login(p) ==
    LET n == p.failed_login_attempts + 1
    IN  [failed_login_attempts |-> n,
         lockout_until |-> IF n >= MAX_LOGIN_ATTEMPTS
                             THEN now + LOCKOUT_DURATION_MINUTES
                             ELSE p.lockout_until]

reset_login_attempts_keep_count(p) ==
    [failed_login_attempts |-> p.failed_login_attempts, lockout_until |-> None]

reset_login_attempts(p) ==
    [failed_login_attempts |-> 0, lockout_until |-> None]

NewProfile == [failed_login_attempts |-> 0, lockout_until |-> None]

(* django.contrib.auth *)

UsersByEmail(email) == {u \in users : u.email = email}

authenticate(username, password) ==
    \E u \in users : u.username = username /\ u.password = password

(* rest_framework_simplejwt: RefreshToken.for_user *)

NextJti == Cardinality(outstanding) + 1

for_user(username) == outstanding \cup {[jti |-> NextJti, user |-> username]}

----------------------------------------------------------------------------
(* models.py: APIKey *)

InitialKeys ==
    [k \in {"k1", "k2", "k3", "k0"} |->
        [key |-> k, user |-> "a", scopes |-> {"read"},
         is_active |-> k # "k3",
         rate_limit |-> IF k = "k0" THEN 0 ELSE RateLimit,
         expires_at |-> IF k = "k2" THEN KeyExpiresAt ELSE None,
         last_used |-> None]]

UnknownKey == "kx"      \* a key id that no row carries

APIKey_is_expired(api_key) ==
    api_key.expires_at # None /\ now > api_key.expires_at

update_last_used(api_key) == [api_key EXCEPT !.last_used = now]

(* django.core.cache: an entry lives while its expiry time is ahead *)

EmptyCache == [k \in {} |-> [value |-> 0, expires |-> 0]]

cache_get(cache_key, default) ==
    IF cache_key \in DOMAIN cache /\ cache[cache_key].expires > now
    THEN cache[cache_key].value
    ELSE default

cache_set(cache_key, value, timeout) ==
    [k \in DOMAIN cache \cup {cache_key} |->
        IF k = cache_key
        THEN [value |-> value, expires |-> now + timeout]
        ELSE cache[k]]

(* The entries of the cache that are alive at time t. *)
Alive(t) == [k \in {x \in DOMAIN cache : cache[x].expires > t} |-> cache[k]]

(* timezone.now().hour *)
hour == (now \div MinutesPerHour) % HoursPerDay

----------------------------------------------------------------------------
(* auth_backends.py: APIKeyAuthentication.  Text is a sequence of          *)
(* characters, so that splitting and concatenating are what they are.      *)

Origin == <<"s", ":", "h">>      \* scheme and host of the server

build_absolute_uri(path) == Origin \o path

(* hmac.new(key, message, sha256).hexdigest(): distinct (key, message)     *)
(* pairs have distinct digests.                                           *)
hmac_sha256(key, message) == <<"hmac-sha256", key>> \o message

(* Variant with a slip: the timestamp is left out of the signed message. *)
Message_without_timestamp(request) ==
    request.method \o build_absolute_uri(request.path) \o request.body

(* f"{method}{url}{body}{timestamp}" *)
Message(request) ==
    request.method \o build_absolute_uri(request.path) \o request.body
        \o request.timestamp

validate_hmac(request, api_key, provided_hmac) ==
    hmac_sha256(api_key.key, Message(request)) = provided_hmac

(* api_key_header.split(':', 1), or the whole header when it has no colon *)
FirstColon(header) ==
    CHOOSE i \in 1..Len(header) :
        header[i] = ":" /\ \A j \in 1..(i - 1) : header[j] # ":"

Split(header) ==
    IF \E i \in 1..Len(header) : header[i] = ":"
    THEN [key_id |-> SubSeq(header, 1, FirstColon(header) - 1),
          has_hmac |-> TRUE,
          provided_hmac |-> SubSeq(header, FirstColon(header) + 1, Len(header))]
    ELSE [key_id |-> header, has_hmac |-> FALSE, provided_hmac |-> <<>>]

(* "if provided_hmac:" is true of a string that is not empty *)
Truthy(parsed) == parsed.has_hmac /\ parsed.provided_hmac # <<>>

(* f"api_key_ratelimit:{api_key.id}:{timezone.now().hour}" *)
RateKey(api_key) == <<api_key.key, hour>>

(* Variant with a slip: the limit itself is still let through. *)
check_rate_limit_inclusive(api_key) ==
    cache_get(RateKey(api_key), 0) <= api_key.rate_limit

check_rate_limit(api_key) ==
    ~(cache_get(RateKey(api_key), 0) >= api_key.rate_limit)

(* Variant with a slip: an accepted request is counted twice. *)
count_request_twice(api_key) ==
    cache_set(RateKey(api_key), cache_get(RateKey(api_key), 0) + 2, CACHE_TIMEOUT)

(* the cache.set of _check_rate_limit, made when the check passes *)
count_request(api_key) ==
    cache_set(RateKey(api_key), cache_get(RateKey(api_key), 0) + 1, CACHE_TIMEOUT)

(* APIKeyUsage.objects.create(...) of _log_usage *)
log_usage(api_key, request) ==
    Append(usage, [api_key |-> api_key.key, endpoint |-> request.path,
                   method |-> request.method, status_code |-> 200,
                   timestamp |-> now])

(* Exceptions raised inside the try block, and what its handlers re-raise *)

DoesNotExist == [exception |-> "DoesNotExist", detail |-> ""]

(* what Model.save raises when the database refuses the write *)
DatabaseError == [exception |-> "DatabaseError", detail |-> ""]

AuthenticationFailed(detail) ==
    [exception |-> "AuthenticationFailed", detail |-> detail]

Reraised(exc) ==
    IF exc.exception = "DoesNotExist"
    THEN AuthenticationFailed("Invalid API key")
    ELSE AuthenticationFailed("Authentication failed")

----------------------------------------------------------------------------
(* models.py: BlogPost and Note *)

MaxNotes == 2

(* Two posts, one by the user whose role is Normal User and one by the    *)
(* user whose profile has no role.                                         *)
InitialPosts ==
    [slug \in {"p1", "p2"} |->
        [author |-> IF slug = "p1" THEN "b" ELSE "c", title |-> "t"]]

----------------------------------------------------------------------------
(* Requests and responses *)

Req(op, email, otp, username, password) ==
    [op |-> op, email |-> email, otp |-> otp,
     username |-> username, password |-> password]

Resp(status, body, remaining, errors, tokens) ==
    [status |-> status, body |-> body, remaining |-> remaining,
     errors |-> errors, tokens |-> tokens]

Done(req, resp, pre) == last' = [req |-> req, resp |-> resp, pre |-> pre]

Plain(status, body) == Resp(status, body, None, {}, FALSE)

(* A challenge of another address, verified and waiting to be consumed. *)
OtherRow ==
    [email |-> OtherEmail, otp |-> "000001", purpose |-> REGISTRATION,
     expiry_time |-> OTP_EXPIRY_MINUTES, is_verified |-> TRUE, attempts |-> 0]

NoRequest == [req |-> Req("none", "", "", "", ""), resp |-> Plain(0, ""), pre |-> {}]

Init ==
    /\ now = 0
    /\ otps = {OtherRow}
    /\ users = {}
    /\ profiles = [u \in {} |-> NewProfile]
    /\ outstanding = {}
    /\ blacklisted = {}
    /\ api_keys = InitialKeys
    /\ cache = EmptyCache
    /\ usage = <<>>
    /\ notes = <<>>
    /\ posts = InitialPosts
    /\ issued = [e \in Emails |-> [p \in Purposes |-> ""]]
    /\ procs = NoProcs
    /\ last = NoRequest

Tick ==
    /\ now + TickMinutes <= MaxTime
    /\ now' = now + TickMinutes
    /\ UNCHANGED <<otps, users, profiles, outstanding, blacklisted, keyvars, contentvars, procs,
                   issued, last>>

----------------------------------------------------------------------------
(* auth_views.py: send_otp *)

(* the request with what send_otp_email returned for it *)
Dispatched(req, email_sent) == req @@ [email_sent |-> email_sent]

(* Variant with a slip: a challenge whose mail cannot be sent is dropped. *)
send_otp_unsent(email, otp, email_sent) ==
    LET req == Req("send_otp", email, "", "", "")
        pre == ByEmail(email)
    IN  IF UsersByEmail(email) # {}
        THEN /\ Done(req, Resp(400, "VALIDATION", None, {"email"}, FALSE), pre)
             /\ UNCHANGED <<now, keyvars, contentvars, procs, otps, users, profiles, outstanding, blacklisted, issued>>
        ELSE /\ otps' = IF email_sent
                        THEN send_otp_delete(email) \cup {NewOTP(email, REGISTRATION, otp)}
                        ELSE send_otp_delete(email)
             /\ issued' = [issued EXCEPT ![email][REGISTRATION] = otp]
             /\ IF email_sent
                THEN Done(Dispatched(req, email_sent), Plain(200, "OTP_SENT"), pre)
                ELSE Done(Dispatched(req, email_sent), Plain(500, "SEND_FAILED"), pre)
             /\ UNCHANGED <<now, keyvars, contentvars, procs, users, profiles, outstanding, blacklisted>>

send_otp(email, otp, email_sent) ==
    LET req == Req("send_otp", email, "", "", "")
        pre == ByEmail(email)
    IN  IF UsersByEmail(email) # {}
        THEN /\ Done(req, Resp(400, "VALIDATION", None, {"email"}, FALSE), pre)
             /\ UNCHANGED <<now, keyvars, contentvars, procs, otps, users, profiles, outstanding, blacklisted, issued>>
        ELSE /\ otps' = send_otp_delete(email) \cup {NewOTP(email, REGISTRATION, otp)}
             /\ issued' = [issued EXCEPT ![email][REGISTRATION] = otp]
             /\ IF email_sent
                THEN Done(Dispatched(req, email_sent), Plain(200, "OTP_SENT"), pre)
                ELSE Done(Dispatched(req, email_sent), Plain(500, "SEND_FAILED"), pre)
             /\ UNCHANGED <<now, keyvars, contentvars, procs, users, profiles, outstanding, blacklisted>>

(* auth_views.py: verify_otp and verify_reset_otp share their body *)

Verify(op, purpose, email, otp) ==
    LET req == Req(op, email, otp, "", "")
        found == ByEmailPurpose(email, purpose)
    IN  IF found = {}
        THEN /\ Done(req, Plain(400, "NOT_FOUND"), {})
             /\ UNCHANGED <<now, keyvars, contentvars, procs, otps, users, profiles, outstanding, blacklisted, issued>>
        ELSE \E otp_record \in First(found) :
             LET pre == {otp_record} IN
             /\ UNCHANGED <<now, keyvars, contentvars, procs, users, profiles, outstanding, blacklisted, issued>>
             /\ IF is_locked(otp_record)
                THEN /\ otps' = otps \ {otp_record}
                     /\ Done(req, Plain(429, "LOCKED"), pre)
                ELSE IF is_expired(otp_record)
                THEN /\ otps' = otps \ {otp_record}
                     /\ Done(req, Plain(400, "EXPIRED"), pre)
                ELSE IF otp_record.otp # otp
                THEN LET r == increment_attempts(otp_record)
                     IN  /\ otps' = (otps \ {otp_record}) \cup {r}
                         /\ Done(req, Resp(400, "INVALID_OTP",
                                           MAX_ATTEMPTS - r.attempts, {}, FALSE), pre)
                ELSE /\ otps' = (otps \ {otp_record})
                                    \cup {[otp_record EXCEPT !.is_verified = TRUE]}
                     /\ Done(req, Plain(200, "VERIFIED"), pre)

verify_otp(email, otp) == Verify("verify_otp", REGISTRATION, email, otp)

verify_reset_otp(email, otp) == Verify("verify_reset_otp", PASSWORD_RESET, email, otp)

(* auth_serializers.py: RegisterSerializer *)

validate_email(email) == \E r \in ByEmail(email) : r.is_verified

validate_username(username) == \A u \in users : u.username # username

RegisterErrors(email, username) ==
    (IF validate_email(email) THEN {} ELSE {"email"})
        \cup (IF validate_username(username) THEN {} ELSE {"username"})

(* auth_views.py: register, with RegisterSerializer.create *)

register(email, username, password) ==
    LET req == Req("register", email, "", username, password)
        errors == RegisterErrors(email, username)
        pre == ByEmail(email)
    IN  IF errors # {}
        THEN /\ Done(req, Resp(400, "VALIDATION", None, errors, FALSE), pre)
             /\ UNCHANGED <<now, keyvars, contentvars, procs, otps, users, profiles, outstanding, blacklisted, issued>>
        ELSE /\ Cardinality(outstanding) < MaxTokens
             /\ users' = users \cup
                    {[username |-> username, email |-> email, password |-> password]}
             /\ profiles' = [u \in DOMAIN profiles \cup {username} |->
                                IF u = username THEN NewProfile ELSE profiles[u]]
             /\ otps' = register_delete(email)
             /\ outstanding' = for_user(username)
             /\ Done(req, Resp(201, "REGISTERED", None, {}, TRUE), pre)
             /\ UNCHANGED <<now, keyvars, contentvars, procs, blacklisted, issued>>

(* auth_views.py: login *)

login(email, password) ==
    LET req == Req("login", email, "", "", password)
        found == UsersByEmail(email)
    IN  IF found = {}
        THEN /\ Done(req, Plain(401, "INVALID_CREDENTIALS"), {})
             /\ UNCHANGED <<now, keyvars, contentvars, procs, otps, users, profiles, outstanding, blacklisted, issued>>
        ELSE IF Cardinality(found) > 1
        THEN \* User.objects.get raises MultipleObjectsReturned, which is not caught
             /\ Done(req, Plain(500, "SERVER_ERROR"), {})
             /\ UNCHANGED <<now, keyvars, contentvars, procs, otps, users, profiles, outstanding, blacklisted, issued>>
        ELSE \E user_obj \in found :
             LET name == user_obj.username
                 has_profile == name \in DOMAIN profiles
                 pre == IF has_profile THEN {profiles[name]} ELSE {}
             IN  IF has_profile /\ is_locked_out(profiles[name])
                 THEN /\ Done(req, Resp(429, "LOCKED_TRY_AGAIN",
                                        profiles[name].lockout_until - now, {}, FALSE), pre)
                      /\ UNCHANGED <<now, keyvars, contentvars, procs, otps, users, profiles, outstanding,
                                     blacklisted, issued>>
                 ELSE IF ~authenticate(name, password)
                 THEN /\ UNCHANGED <<now, keyvars, contentvars, procs, otps, users, outstanding, blacklisted, issued>>
                      /\ IF has_profile
                         THEN LET p == record_failed_login(profiles[name])
                                  remaining == MAX_LOGIN_ATTEMPTS - p.failed_login_attempts
                              IN  /\ profiles' = [profiles EXCEPT ![name] = p]
                                  /\ IF remaining > 0
                                     THEN Done(req, Resp(401, "INVALID_CREDENTIALS",
                                                         remaining, {}, FALSE), pre)
                                     ELSE Done(req, Resp(429, "ACCOUNT_LOCKED",
                                                         LOCKOUT_DURATION_MINUTES, {}, FALSE), pre)
                         ELSE /\ profiles' = profiles
                              /\ Done(req, Plain(401, "INVALID_CREDENTIALS"), pre)
                 ELSE /\ Cardinality(outstanding) < MaxTokens
                      /\ profiles' = IF has_profile
                                       THEN [profiles EXCEPT
                                               ![name] = reset_login_attempts(profiles[name])]
                                       ELSE profiles
                      /\ outstanding' = for_user(name)
                      /\ Done(req, Resp(200, "LOGIN_OK", None, {}, TRUE), pre)
                      /\ UNCHANGED <<now, keyvars, contentvars, procs, otps, users, blacklisted, issued>>

(* auth_views.py: forgot_password *)

(* Variant with a slip: it reports, as send_otp does, what it found. *)
forgot_password_revealing(email, otp, email_sent) ==
    LET req == Req("forgot_password", email, "", "", "")
        pre == ByEmailPurpose(email, PASSWORD_RESET)
    IN  /\ UNCHANGED <<now, keyvars, contentvars, procs, users, profiles, outstanding, blacklisted>>
        /\ IF UsersByEmail(email) # {}
           THEN /\ otps' = forgot_password_delete(email)
                               \cup {NewOTP(email, PASSWORD_RESET, otp)}
                /\ issued' = [issued EXCEPT ![email][PASSWORD_RESET] = otp]
                /\ IF email_sent
                   THEN Done(req, Plain(200, "GENERIC"), pre)
                   ELSE Done(req, Plain(500, "SEND_FAILED"), pre)
           ELSE /\ Done(req, Plain(200, "GENERIC"), pre)
                /\ UNCHANGED <<otps, issued>>

forgot_password(email, otp, email_sent) ==
    LET req == Req("forgot_password", email, "", "", "")
        pre == ByEmailPurpose(email, PASSWORD_RESET)
    IN  /\ Done(req, Plain(200, "GENERIC"), pre)
        /\ UNCHANGED <<now, keyvars, contentvars, procs, users, profiles, outstanding, blacklisted>>
        /\ IF UsersByEmail(email) # {}
           THEN /\ otps' = forgot_password_delete(email)
                               \cup {NewOTP(email, PASSWORD_RESET, otp)}
                /\ issued' = [issued EXCEPT ![email][PASSWORD_RESET] = otp]
           ELSE UNCHANGED <<otps, issued>>

(* auth_serializers.py: ResetPasswordSerializer.validate *)

(* Variant with a slip: the lookup leaves out is_verified = True. *)
ResetErrors_unverified(email, otp, new_password, confirm_password) ==
    IF new_password # confirm_password
    THEN {"confirm_password"}
    ELSE IF \E r \in ByEmailPurpose(email, PASSWORD_RESET) : r.otp = otp
         THEN {}
         ELSE {"otp"}

ResetErrors(email, otp, new_password, confirm_password) ==
    IF new_password # confirm_password
    THEN {"confirm_password"}
    ELSE IF \E r \in ByEmailPurpose(email, PASSWORD_RESET) :
                r.otp = otp /\ r.is_verified
         THEN {}
         ELSE {"otp"}

(* auth_views.py: reset_password *)

reset_password(email, otp, new_password, confirm_password) ==
    LET req == Req("reset_password", email, otp, "", new_password)
                   @@ [confirm_password |-> confirm_password]
        errors == ResetErrors(email, otp, new_password, confirm_password)
        found == UsersByEmail(email)
        pre == ByEmailPurpose(email, PASSWORD_RESET)
    IN  IF errors # {}
        THEN /\ Done(req, Resp(400, "VALIDATION", None, errors, FALSE), pre)
             /\ UNCHANGED <<now, keyvars, contentvars, procs, otps, users, profiles, outstanding, blacklisted, issued>>
        ELSE IF found = {}
        THEN /\ Done(req, Plain(404, "USER_NOT_FOUND"), pre)
             /\ UNCHANGED <<now, keyvars, contentvars, procs, otps, users, profiles, outstanding, blacklisted, issued>>
        ELSE IF Cardinality(found) > 1
        THEN \* User.objects.get raises MultipleObjectsReturned, which is not caught
             /\ Done(req, Plain(500, "SERVER_ERROR"), pre)
             /\ UNCHANGED <<now, keyvars, contentvars, procs, otps, users, profiles, outstanding, blacklisted, issued>>
        ELSE \E user \in found :
             /\ users' = (users \ {user}) \cup {[user EXCEPT !.password = new_password]}
             /\ blacklisted' = blacklisted \cup
                    {t.jti : t \in {x \in outstanding : x.user = user.username}}
             /\ otps' = reset_password_delete(email)
             /\ Done(req, Plain(200, "PASSWORD_RESET_OK"), pre)
             /\ UNCHANGED <<now, keyvars, contentvars, procs, profiles, outstanding, issued>>

----------------------------------------------------------------------------
(* Session tokens (rest_framework_simplejwt), as a client presents them.   *)
(* A token pair is known by the jti of its OutstandingToken row: the       *)
(* refresh token of the row, and the access token handed out with it       *)
(* (refresh.access_token), of which the server keeps no record.  A token   *)
(* that no issue produced fails the signature check as a malformed one.    *)

Malformed == [kind |-> "malformed", jti |-> 0]

NoToken == [kind |-> "none", jti |-> 0]

Tokens == [kind : {"refresh", "access"}, jti : 1..MaxTokens] \cup {Malformed}

TokenReq(op, token) == Req(op, "", "", "", "") @@ [token |-> token]

(* RefreshToken(token): decode, verify type and signature, check_blacklist *)
RefreshToken(token) ==
    /\ token.kind = "refresh"
    /\ \E t \in outstanding : t.jti = token.jti
    /\ token.jti \notin blacklisted

(* JWTAuthentication: AccessToken(token) verifies type, signature and      *)
(* expiry, then the user is looked up; the blacklist is not consulted.     *)
AccessToken(token) ==
    /\ token.kind = "access"
    /\ \E t \in outstanding : t.jti = token.jti /\ \E u \in users : u.username = t.user

(* auth_views.py: logout *)

(* Variant with a slip: it tells a revoked token from a malformed one. *)
logout_telling(refresh_token) ==
    LET req == TokenReq("logout", refresh_token)
    IN  /\ UNCHANGED <<now, keyvars, contentvars, procs, otps, users, profiles, outstanding, issued>>
        /\ IF refresh_token = NoToken
           THEN /\ Done(req, Plain(400, "REFRESH_REQUIRED"), {})
                /\ blacklisted' = blacklisted
           ELSE IF RefreshToken(refresh_token)
           THEN /\ blacklisted' = blacklisted \cup {refresh_token.jti}
                /\ Done(req, Plain(200, "LOGOUT_OK"), {})
           ELSE IF refresh_token.jti \in blacklisted
           THEN /\ Done(req, Plain(400, "TOKEN_BLACKLISTED"), {})
                /\ blacklisted' = blacklisted
           ELSE /\ Done(req, Plain(400, "INVALID_TOKEN"), {})
                /\ blacklisted' = blacklisted

logout(refresh_token) ==
    LET req == TokenReq("logout", refresh_token)
    IN  /\ UNCHANGED <<now, keyvars, contentvars, procs, otps, users, profiles, outstanding, issued>>
        /\ IF refresh_token = NoToken
           THEN /\ Done(req, Plain(400, "REFRESH_REQUIRED"), {})
                /\ blacklisted' = blacklisted
           ELSE IF RefreshToken(refresh_token)
           THEN /\ blacklisted' = blacklisted \cup {refresh_token.jti}
                /\ Done(req, Plain(200, "LOGOUT_OK"), {})
           ELSE \* TokenError, caught by "except Exception"
                /\ Done(req, Plain(400, "INVALID_TOKEN"), {})
                /\ blacklisted' = blacklisted

(* auth_urls.py: token/refresh/ (TokenRefreshView) *)

token_refresh(refresh_token) ==
    LET req == TokenReq("token_refresh", refresh_token)
    IN  /\ UNCHANGED <<now, keyvars, contentvars, procs, otps, users, profiles, outstanding,
                       blacklisted, issued>>
        /\ IF RefreshToken(refresh_token)
           THEN Done(req, Resp(200, "ACCESS", None, {}, TRUE), {})
           ELSE Done(req, Plain(401, "TOKEN_NOT_VALID"), {})

(* views.py: NoteViewSet.list, a request that IsAuthenticated guards,      *)
(* presented with an access token as its bearer credential.                *)

list_notes(access_token) ==
    LET req == TokenReq("list_notes", access_token)
    IN  /\ UNCHANGED <<now, keyvars, contentvars, procs, otps, users, profiles, outstanding,
                       blacklisted, issued>>
        /\ IF AccessToken(access_token)
           THEN Done(req, Plain(200, "NOTES"), {})
           ELSE Done(req, Plain(401, "NOT_AUTHENTICATED"), {})

----------------------------------------------------------------------------
(* auth_backends.py: APIKeyAuthentication.authenticate *)

KeyReq(api_key_header, request) ==
    [op |-> "api_key", header |-> api_key_header, request |-> request]

NoPrincipal == [user |-> "", api_key |-> ""]

(* authenticate returns None: this authenticator does not apply *)
NotAttempted == [status |-> 0, body |-> "", principal |-> NoPrincipal]

(* the exception that leaves authenticate; its status_code is 401 *)
Failed(exc) == [status |-> 401, body |-> exc.detail, principal |-> NoPrincipal]

(* authenticate returns (api_key.user, api_key) *)
Authenticated(api_key) ==
    [status |-> 200, body |-> "",
     principal |-> [user |-> api_key.user, api_key |-> api_key.key]]

(* save_fails and log_fails are the faults of the database during the two *)
(* writes that follow the checks: api_key.save(update_fields=...) raising  *)
(* inside update_last_used, and APIKeyUsage.objects.create raising inside   *)
(* _log_usage.  The counter of the rate limit lives in the cache and has    *)
(* been written by then.                                                    *)
APIKeyAuthentication_authenticate(api_key_header, request, save_fails, log_fails) ==
    LET req == KeyReq(api_key_header, request)
        parsed == Split(api_key_header)
        found == {k \in DOMAIN api_keys :
                     <<api_keys[k].key>> = parsed.key_id /\ api_keys[k].is_active}
    IN  IF api_key_header = <<>>
        THEN /\ Done(req, NotAttempted, {})
             /\ UNCHANGED <<now, keyvars, contentvars, procs, otps, users, profiles, outstanding,
                            blacklisted, issued>>
        ELSE IF found = {}
        THEN /\ Done(req, Failed(Reraised(DoesNotExist)), {})
             /\ UNCHANGED <<now, keyvars, contentvars, procs, otps, users, profiles, outstanding,
                            blacklisted, issued>>
        ELSE \E k \in found :
             LET api_key == api_keys[k]
                 pre == {api_key}
             IN  IF APIKey_is_expired(api_key)
                 THEN /\ Done(req, Failed(Reraised(
                               AuthenticationFailed("API key has expired"))), pre)
                      /\ UNCHANGED <<now, keyvars, contentvars, procs, otps, users, profiles,
                                     outstanding, blacklisted, issued>>
                 ELSE IF /\ Truthy(parsed)
                         /\ ~validate_hmac(request, api_key, parsed.provided_hmac)
                 THEN /\ Done(req, Failed(Reraised(
                               AuthenticationFailed("Invalid API key signature"))), pre)
                      /\ UNCHANGED <<now, keyvars, contentvars, procs, otps, users, profiles,
                                     outstanding, blacklisted, issued>>
                 ELSE IF ~check_rate_limit(api_key)
                 THEN /\ Done(req, Failed(Reraised(
                               AuthenticationFailed("Rate limit exceeded"))), pre)
                      /\ UNCHANGED <<now, keyvars, contentvars, procs, otps, users, profiles,
                                     outstanding, blacklisted, issued>>
                 ELSE /\ Len(usage) < MaxUsage
                      /\ cache' = count_request(api_key)
                      /\ UNCHANGED <<now, contentvars, procs, otps, users, profiles,
                                     outstanding, blacklisted, issued>>
                      /\ IF save_fails
                         THEN \* update_last_used raises; "except Exception"
                              /\ UNCHANGED <<api_keys, usage>>
                              /\ Done(req, Failed(Reraised(DatabaseError)), pre)
                         ELSE /\ api_keys' = [api_keys EXCEPT
                                                 ![k] = update_last_used(api_key)]
                              /\ usage' = IF log_fails
                                          THEN usage \* swallowed by _log_usage
                                          ELSE log_usage(api_key, request)
                              /\ Done(req, Authenticated(api_key), pre)

----------------------------------------------------------------------------
Next ==
    \/ Tick
    \/ \E email \in Emails, otp \in generate_otp, email_sent \in BOOLEAN :
           send_otp(email, otp, email_sent)
    \/ \E email \in Emails, otp \in Codes : verify_otp(email, otp)
    \/ \E email \in Emails, username \in Usernames, password \in Passwords :
           register(email, username, password)
    \/ \E email \in Emails, otp \in generate_otp, email_sent \in BOOLEAN :
           forgot_password(email, otp, email_sent)
    \/ \E email \in Emails, otp \in Codes : verify_reset_otp(email, otp)
    \/ \E email \in Emails, otp \in Codes, new_password \in Passwords,
          confirm_password \in Passwords :
           reset_password(email, otp, new_password, confirm_password)

Spec == Init /\ [][Next]_vars

----------------------------------------------------------------------------
(* The login flow, on a store that holds two registered accounts (each    *)
(* with the profile and the token its registration created).              *)

LoginEmails == Emails \cup {OtherEmail, UnknownEmail}

InitLogin ==
    /\ now = 0
    /\ otps = {}
    /\ \E pa \in Passwords, pz \in Passwords :
           users = {[username |-> "a", email |-> "a@x.com", password |-> pa],
                    [username |-> "z", email |-> OtherEmail, password |-> pz]}
    /\ profiles = [u \in {"a", "z"} |-> NewProfile]
    /\ outstanding = {[jti |-> 1, user |-> "a"], [jti |-> 2, user |-> "z"]}
    /\ blacklisted = {}
    /\ api_keys = InitialKeys
    /\ cache = EmptyCache
    /\ usage = <<>>
    /\ notes = <<>>
    /\ posts = InitialPosts
    /\ issued = [e \in Emails |-> [p \in Purposes |-> ""]]
    /\ procs = NoProcs
    /\ last = NoRequest

NextLogin ==
    \/ Tick
    \/ \E email \in LoginEmails, password \in Passwords : login(email, password)

SpecLogin == InitLogin /\ [][NextLogin]_vars

(* The session flows on the same store, within the lifetime of the tokens  *)
(* (the clock stands still): login, the password reset of the first        *)
(* account, logout, token refresh and a request that needs a session.      *)

SessionCodes == {"000001"}

NextSession ==
    \/ \E email \in Emails, password \in Passwords : login(email, password)
    \/ \E email \in Emails, otp \in SessionCodes : forgot_password(email, otp, TRUE)
    \/ \E email \in Emails, otp \in SessionCodes : verify_reset_otp(email, otp)
    \/ \E email \in Emails, otp \in SessionCodes, new_password \in Passwords :
           reset_password(email, otp, new_password, new_password)
    \/ \E token \in Tokens \cup {NoToken} : logout(token)
    \/ \E token \in Tokens : token_refresh(token)
    \/ \E token \in Tokens : list_notes(token)

SpecSession == InitLogin /\ [][NextSession]_vars

(* The API-key authenticator on the table of keys, over two days: the     *)
(* clock moves by half hours within the first hours of a day, and once by  *)
(* a whole day.  Entries of the cache that have expired are dropped as the   *)
(* clock moves; no read can tell the difference.                           *)

MinutesPerDay == HoursPerDay * MinutesPerHour

TickKey(minutes) ==
    /\ IF minutes = MinutesPerDay
       THEN now < MinutesPerDay
       ELSE (now % MinutesPerDay) + minutes <= MaxKeyTime
    /\ now' = now + minutes
    /\ cache' = Alive(now + minutes)
    /\ UNCHANGED <<otps, users, profiles, outstanding, blacklisted,
                   api_keys, usage, contentvars, procs, issued, last>>

KeyRequests ==
    {[method |-> <<"P">>, path |-> <<"/", "f">>, body |-> b, timestamp |-> <<"1">>] :
        b \in {<<"x">>, <<"y">>}}

KeyNames == DOMAIN InitialKeys \cup {UnknownKey}

SigningKeys == {"k1", "k2"}

(* What a caller may put after the colon: nothing, text that is no        *)
(* digest, or the digest one of the keys gives for one of the requests.    *)
Signatures ==
    {<<>>, <<"z">>} \cup
    {hmac_sha256(k, Message(q)) : k \in SigningKeys, q \in KeyRequests}

Headers ==
    {<<>>} \cup {<<k>> : k \in KeyNames}
           \cup {<<"k1", ":">> \o sig : sig \in Signatures}

InitKey ==
    /\ now = 0
    /\ otps = {}
    /\ users = {[username |-> "a", email |-> "a@x.com", password |-> "Str0ngP@ss"]}
    /\ profiles = [u \in {"a"} |-> NewProfile]
    /\ outstanding = {[jti |-> 1, user |-> "a"]}
    /\ blacklisted = {}
    /\ api_keys = InitialKeys
    /\ cache = EmptyCache
    /\ usage = <<>>
    /\ notes = <<>>
    /\ posts = InitialPosts
    /\ issued = [e \in Emails |-> [p \in Purposes |-> ""]]
    /\ procs = NoProcs
    /\ last = NoRequest

NextKey ==
    \/ \E minutes \in {KeyTickMinutes, MinutesPerDay} : TickKey(minutes)
    \/ \E api_key_header \in Headers, request \in KeyRequests :
           APIKeyAuthentication_authenticate(api_key_header, request, FALSE, FALSE)

SpecKey == InitKey /\ [][NextKey]_vars

(* The same authenticator with a database that may refuse either write.   *)

FaultHeaders == {<<k>> : k \in {"k1", "k2", UnknownKey}}

FaultRequests == {q \in KeyRequests : q.body = <<"x">>}

NextKeyFaults ==
    \/ \E minutes \in {KeyTickMinutes, MinutesPerDay} : TickKey(minutes)
    \/ \E api_key_header \in FaultHeaders, request \in FaultRequests,
          save_fails \in BOOLEAN, log_fails \in BOOLEAN :
           APIKeyAuthentication_authenticate(api_key_header, request,
                                             save_fails, log_fails)

SpecKeyFaults == InitKey /\ [][NextKeyFaults]_vars

(* _validate_hmac as a function: a key, a request whose fields are drawn   *)
(* from short texts, and one byte of one field to be replaced are chosen   *)
(* at the start; the client signs the request, and the server validates    *)
(* that signature for the request as signed and for the altered request.   *)
(* The url is build_absolute_uri(request.path), so its variable part is    *)
(* the path.                                                               *)

Alphabet == {"a", "b"}

Texts(n) == UNION {[1..m -> Alphabet] : m \in 0..n}

SignedFields == {"method", "path", "body", "timestamp"}

HmacRequests ==
    [method : Texts(1) \ {<<>>}, path : Texts(MaxLen),
     body : Texts(MaxLen), timestamp : Texts(1)]

(* the request with byte i of one field replaced by c *)
Altered(request, field, i, c) ==
    [request EXCEPT ![field] = [@ EXCEPT ![i] = c]]

(* what the holder of the key sends as the signature of a request *)
Sign(key, request) == hmac_sha256(key, Message(request))

Verdict(b) == IF b THEN "valid" ELSE "invalid"

InitHmac ==
    /\ now = 0
    /\ otps = {}
    /\ users = {}
    /\ profiles = [u \in {} |-> NewProfile]
    /\ outstanding = {}
    /\ blacklisted = {}
    /\ api_keys = InitialKeys
    /\ cache = EmptyCache
    /\ usage = <<>>
    /\ notes = <<>>
    /\ posts = InitialPosts
    /\ issued = [e \in Emails |-> [p \in Purposes |-> ""]]
    /\ procs = NoProcs
    /\ \E key \in SigningKeys, request \in HmacRequests, field \in SignedFields,
          c \in Alphabet :
          \E i \in 1..Len(request[field]) :
             /\ request[field][i] # c
             /\ last = [req |-> [op |-> "validate_hmac", key |-> key,
                                 request |-> request, field |-> field,
                                 i |-> i, c |-> c],
                        resp |-> [signed |-> "", altered |-> ""],
                        pre |-> {}]

(* the server validates the signature for the request that was signed *)
ValidateSigned ==
    /\ last.resp.signed = ""
    /\ last' = [last EXCEPT !.resp.signed =
                    Verdict(validate_hmac(last.req.request, api_keys[last.req.key],
                                          Sign(last.req.key, last.req.request)))]
    /\ UNCHANGED <<now, keyvars, contentvars, procs, otps, users, profiles, outstanding, blacklisted,
                   issued>>

(* the server validates the same signature for the altered request *)
ValidateAltered ==
    /\ last.resp.altered = ""
    /\ last' = [last EXCEPT !.resp.altered =
                    Verdict(validate_hmac(
                        Altered(last.req.request, last.req.field, last.req.i,
                                last.req.c),
                        api_keys[last.req.key],
                        Sign(last.req.key, last.req.request)))]
    /\ UNCHANGED <<now, keyvars, contentvars, procs, otps, users, profiles, outstanding, blacklisted,
                   issued>>

NextHmac == ValidateSigned \/ ValidateAltered

SpecHmac == InitHmac /\ [][NextHmac]_vars

(* _validate_hmac for two requests: the holder of a key signs one request  *)
(* and the signature is presented with another request, both drawn from    *)
(* short texts at the start.                                               *)

TupleRequests ==
    [method : Texts(1) \ {<<>>}, path : Texts(1),
     body : Texts(MaxLen), timestamp : Texts(1)]

InitTuple ==
    /\ now = 0
    /\ otps = {}
    /\ users = {}
    /\ profiles = [u \in {} |-> NewProfile]
    /\ outstanding = {}
    /\ blacklisted = {}
    /\ api_keys = InitialKeys
    /\ cache = EmptyCache
    /\ usage = <<>>
    /\ notes = <<>>
    /\ posts = InitialPosts
    /\ issued = [e \in Emails |-> [p \in Purposes |-> ""]]
    /\ procs = NoProcs
    /\ \E key \in SigningKeys, signed \in TupleRequests,
          presented \in TupleRequests :
             last = [req |-> [op |-> "validate_tuple", key |-> key,
                              signed |-> signed, presented |-> presented],
                     resp |-> [verdict |-> ""],
                     pre |-> {}]

(* the server validates the signature of the signed request for the        *)
(* presented request                                                       *)
ValidatePresented ==
    /\ last.resp.verdict = ""
    /\ last' = [last EXCEPT !.resp.verdict =
                    Verdict(validate_hmac(last.req.presented,
                                          api_keys[last.req.key],
                                          Sign(last.req.key, last.req.signed)))]
    /\ UNCHANGED <<now, keyvars, contentvars, procs, otps, users, profiles, outstanding, blacklisted,
                   issued>>

NextTuple == ValidatePresented

SpecTuple == InitTuple /\ [][NextTuple]_vars

----------------------------------------------------------------------------
(* Requests in progress at the same time.  Each worker of the server runs  *)
(* one handler at a time, statement by statement; the database runs in     *)
(* autocommit mode and no handler takes a lock or opens a transaction, so  *)
(* the queries of the workers interleave in any order.                     *)

Workers == {"w1", "w2"}

(* send_otp and forgot_password in three steps: the lookup of the user,    *)
(* the delete, the create with the mail and the response.  The table is a  *)
(* set of rows, so two rows are told apart only when a column differs.     *)

IdleSend == [pc |-> "idle", op |-> "", email |-> ""]

(* the address is free, or it is the address of a registered user *)
InitSendRace ==
    /\ now = 0
    /\ otps = {}
    /\ \E registered \in BOOLEAN :
          IF registered
          THEN /\ users = {[username |-> "a", email |-> "a@x.com",
                            password |-> "Str0ngP@ss"]}
               /\ profiles = [u \in {"a"} |-> NewProfile]
          ELSE /\ users = {}
               /\ profiles = [u \in {} |-> NewProfile]
    /\ outstanding = {}
    /\ blacklisted = {}
    /\ api_keys = InitialKeys
    /\ cache = EmptyCache
    /\ usage = <<>>
    /\ notes = <<>>
    /\ posts = InitialPosts
    /\ issued = [e \in Emails |-> [p \in Purposes |-> ""]]
    /\ procs = [w \in Workers |-> IdleSend]
    /\ last = NoRequest

(* serializer.is_valid(): SendOTPSerializer.validate_email *)
send_otp_is_valid(w, email) ==
    /\ procs[w].pc = "idle"
    /\ procs' = [procs EXCEPT ![w] =
                    IF UsersByEmail(email) # {}
                    THEN IdleSend
                    ELSE [pc |-> "delete", op |-> "send_otp", email |-> email]]
    /\ UNCHANGED <<now, keyvars, contentvars, otps, users, profiles, outstanding,
                   blacklisted, issued, last>>

(* User.objects.filter(email=email).exists() *)
forgot_password_user_exists(w, email) ==
    /\ procs[w].pc = "idle"
    /\ procs' = [procs EXCEPT ![w] =
                    IF UsersByEmail(email) # {}
                    THEN [pc |-> "delete", op |-> "forgot_password", email |-> email]
                    ELSE IdleSend]
    /\ UNCHANGED <<now, keyvars, contentvars, otps, users, profiles, outstanding,
                   blacklisted, issued, last>>

PurposeOfHandler(op) == IF op = "send_otp" THEN REGISTRATION ELSE PASSWORD_RESET

(* EmailOTP.objects.filter(...).delete() of the handler the worker runs *)
delete_step(w) ==
    /\ procs[w].pc = "delete"
    /\ otps' = IF procs[w].op = "send_otp"
               THEN send_otp_delete(procs[w].email)
               ELSE forgot_password_delete(procs[w].email)
    /\ procs' = [procs EXCEPT ![w].pc = "create"]
    /\ UNCHANGED <<now, keyvars, contentvars, users, profiles, outstanding,
                   blacklisted, issued, last>>

(* generate_otp(), EmailOTP.objects.create(...), the mail and the response *)
create_step(w, otp) ==
    /\ procs[w].pc = "create"
    /\ otps' = otps \cup {NewOTP(procs[w].email, PurposeOfHandler(procs[w].op), otp)}
    /\ issued' = [issued EXCEPT ![procs[w].email][PurposeOfHandler(procs[w].op)] = otp]
    /\ procs' = [procs EXCEPT ![w] = IdleSend]
    /\ UNCHANGED <<now, keyvars, contentvars, users, profiles, outstanding,
                   blacklisted, last>>

(* the clock moves while the workers are idle or between two statements *)
TickRace ==
    /\ now + TickMinutes <= MaxTime
    /\ now' = now + TickMinutes
    /\ UNCHANGED <<otps, users, profiles, outstanding, blacklisted, keyvars,
                   contentvars, issued, procs, last>>

NextSendRace ==
    \/ TickRace
    \/ \E w \in Workers :
        \/ \E email \in Emails : send_otp_is_valid(w, email)
        \/ \E email \in Emails : forgot_password_user_exists(w, email)
        \/ delete_step(w)
        \/ \E otp \in generate_otp : create_step(w, otp)

SpecSendRace == InitSendRace /\ [][NextSendRace]_vars

(* APIKeyAuthentication.authenticate in two steps, for a header that       *)
(* carries no signature: up to the cache.get of _check_rate_limit, and     *)
(* from its comparison to the end.  The clock stands still, so all the     *)
(* requests fall into one hour window.                                     *)

IdleKey == [pc |-> "idle", key |-> "", request |-> <<>>, current_usage |-> 0]

InitRateRace ==
    /\ now = 0
    /\ otps = {}
    /\ users = {[username |-> "a", email |-> "a@x.com", password |-> "Str0ngP@ss"]}
    /\ profiles = [u \in {"a"} |-> NewProfile]
    /\ outstanding = {[jti |-> 1, user |-> "a"]}
    /\ blacklisted = {}
    /\ api_keys = InitialKeys
    /\ cache = EmptyCache
    /\ usage = <<>>
    /\ notes = <<>>
    /\ posts = InitialPosts
    /\ issued = [e \in Emails |-> [p \in Purposes |-> ""]]
    /\ procs = [w \in Workers |-> IdleKey]
    /\ last = NoRequest

(* the lookup of the key, is_expired() and current_usage = cache.get(...) *)
authenticate_cache_get(w, k, request) ==
    /\ procs[w].pc = "idle"
    /\ k \in DOMAIN api_keys
    /\ api_keys[k].is_active
    /\ ~APIKey_is_expired(api_keys[k])
    /\ procs' = [procs EXCEPT ![w] =
                    [pc |-> "compare", key |-> k, request |-> request,
                     current_usage |-> cache_get(RateKey(api_keys[k]), 0)]]
    /\ UNCHANGED <<now, keyvars, contentvars, otps, users, profiles, outstanding,
                   blacklisted, issued, last>>

(* "if current_usage >= api_key.rate_limit: return False", else the        *)
(* cache.set with the value read before, update_last_used and _log_usage   *)
authenticate_cache_set(w) ==
    LET api_key == api_keys[procs[w].key]
    IN  /\ procs[w].pc = "compare"
        /\ procs' = [procs EXCEPT ![w] = IdleKey]
        /\ UNCHANGED <<now, contentvars, otps, users, profiles, outstanding,
                       blacklisted, issued, last>>
        /\ IF procs[w].current_usage >= api_key.rate_limit
           THEN UNCHANGED keyvars
           ELSE /\ Len(usage) < MaxUsage
                /\ cache' = cache_set(RateKey(api_key), procs[w].current_usage + 1,
                                      CACHE_TIMEOUT)
                /\ api_keys' = [api_keys EXCEPT
                                   ![procs[w].key] = update_last_used(api_key)]
                /\ usage' = log_usage(api_key, procs[w].request)

NextRateRace ==
    \E w \in Workers :
        \/ \E k \in DOMAIN api_keys, request \in KeyRequests :
               authenticate_cache_get(w, k, request)
        \/ authenticate_cache_set(w)

SpecRateRace == InitRateRace /\ [][NextRateRace]_vars

(* verify_otp in two steps: the query that fetches the challenge, and the  *)
(* rest of the handler, which decides on the copy it fetched and ends in   *)
(* one delete or one save.  One challenge is in the store at the start.    *)

MaxCompared == 7        \* wrong codes compared before new requests stop

(* the row in the table that has the primary key of the copy: the columns  *)
(* no handler changes tell the rows apart                                  *)
SamePk(r, q) ==
    /\ r.email = q.email
    /\ r.purpose = q.purpose
    /\ r.otp = q.otp
    /\ r.expiry_time = q.expiry_time

(* Model.delete(): DELETE ... WHERE id = pk *)
Model_delete(otp_record) == {q \in otps : ~SamePk(q, otp_record)}

(* Model.save(): UPDATE of every column WHERE id = pk, INSERT when no row  *)
(* was updated                                                             *)
Model_save(otp_record) == Model_delete(otp_record) \cup {otp_record}

IdleVerify(mismatches) ==
    [pc |-> "idle", otp |-> "", otp_record |-> {}, mismatches |-> mismatches]

RECURSIVE Mismatches(_)
Mismatches(W) ==
    IF W = {}
    THEN 0
    ELSE LET w == CHOOSE x \in W : TRUE
         IN  procs[w].mismatches + Mismatches(W \ {w})

InitVerifyRace ==
    /\ now = 0
    /\ \E otp \in generate_otp : otps = {NewOTP("a@x.com", REGISTRATION, otp)}
    /\ users = {}
    /\ profiles = [u \in {} |-> NewProfile]
    /\ outstanding = {}
    /\ blacklisted = {}
    /\ api_keys = InitialKeys
    /\ cache = EmptyCache
    /\ usage = <<>>
    /\ notes = <<>>
    /\ posts = InitialPosts
    /\ issued = [e \in Emails |-> [p \in Purposes |-> ""]]
    /\ procs = [w \in Workers |-> IdleVerify(0)]
    /\ last = NoRequest

(* otp_record = EmailOTP.objects.filter(email=email,                       *)
(*                                     purpose='registration').first()     *)
verify_otp_first(w, email, otp) ==
    LET found == ByEmailPurpose(email, REGISTRATION)
    IN  /\ procs[w].pc = "idle"
        /\ Mismatches(Workers) < MaxCompared
        /\ found # {}
        /\ \E otp_record \in First(found) :
               procs' = [procs EXCEPT ![w] =
                           [pc |-> "fetched", otp |-> otp,
                            otp_record |-> {otp_record},
                            mismatches |-> procs[w].mismatches]]
        /\ UNCHANGED <<now, keyvars, contentvars, otps, users, profiles, outstanding,
                       blacklisted, issued, last>>

(* is_locked(), is_expired(), the comparison of the codes, and the write.  *)
(* A wrong code is counted when the row in the table is not locked at the  *)
(* moment of the comparison.                                               *)
verify_otp_decide(w) ==
    /\ procs[w].pc = "fetched"
    /\ UNCHANGED <<now, keyvars, contentvars, users, profiles, outstanding,
                   blacklisted, issued, last>>
    /\ \E otp_record \in procs[w].otp_record :
          IF is_locked(otp_record) \/ is_expired(otp_record)
          THEN /\ otps' = Model_delete(otp_record)
               /\ procs' = [procs EXCEPT ![w] = IdleVerify(procs[w].mismatches)]
          ELSE IF otp_record.otp # procs[w].otp
          THEN /\ otps' = Model_save(increment_attempts(otp_record))
               /\ procs' = [procs EXCEPT ![w] =
                     IdleVerify(IF \E q \in otps : SamePk(q, otp_record) /\ ~is_locked(q)
                                THEN procs[w].mismatches + 1
                                ELSE procs[w].mismatches)]
          ELSE /\ otps' = Model_save([otp_record EXCEPT !.is_verified = TRUE])
               /\ procs' = [procs EXCEPT ![w] = IdleVerify(procs[w].mismatches)]

NextVerifyRace ==
    \/ TickRace
    \/ \E w \in Workers :
        \/ \E email \in Emails, otp \in Codes : verify_otp_first(w, email, otp)
        \/ verify_otp_decide(w)

SpecVerifyRace == InitVerifyRace /\ [][NextVerifyRace]_vars

TypeOK ==
    /\ now \in 0..MaxTime \/ now \in 0..(MinutesPerDay + MaxKeyTime)
    /\ Len(usage) <= MaxUsage
    /\ \A r \in otps : r.attempts \in 0..MAX_ATTEMPTS
    /\ Cardinality(outstanding) <= MaxTokens

----------------------------------------------------------------------------
(* Properties.  A step that leaves the clock alone is the step of one      *)
(* handler; last' then holds that request, its response and the rows it    *)
(* read, and the unprimed variables are the store the request found.       *)

Handled(op) == now' = now /\ last'.req.op = op

VerifyOps == {"verify_otp", "verify_reset_otp"}

PurposeOf(op) == IF op = "verify_otp" THEN REGISTRATION ELSE PASSWORD_RESET

(* C1: register succeeds only if the store holds a verified challenge of   *)
(* purpose REGISTRATION for the email; in every other state it fails with  *)
(* the email-not-verified error (400) and creates no user.                 *)
C1_RegisterNeedsVerifiedRegistration ==
    [][Handled("register") =>
        LET verified == \E r \in ByEmailPurpose(last'.req.email, REGISTRATION) :
                            r.is_verified
        IN  /\ last'.resp.status = 201 => verified
            /\ ~verified => /\ last'.resp.status = 400
                            /\ "email" \in last'.resp.errors
                            /\ users' = users]_vars

(* C2: a verify call fails with Locked (429) exactly when the stored       *)
(* challenge has attempts >= 5, whether or not the supplied code is        *)
(* correct; that call deletes the challenge, and a verify that finds no    *)
(* challenge for the pair fails with NotFound.                             *)
C2_LockedExactlyAtMaxAttempts ==
    [][\A op \in VerifyOps : Handled(op) =>
        LET rows == ByEmailPurpose(last'.req.email, PurposeOf(op))
            rows_after == {r \in otps' : r.email = last'.req.email
                                          /\ r.purpose = PurposeOf(op)}
        IN  /\ last'.resp.status = 429 <=> \E r \in rows : r.attempts >= 5
            /\ last'.resp.status = 429 =>
                   /\ last'.resp.body = "LOCKED"
                   /\ rows_after = {}
            /\ rows = {} <=> last'.resp.body = "NOT_FOUND"
            /\ last'.resp.body = "NOT_FOUND" => last'.resp.status = 400]_vars

C2_Witness ==
    /\ last.req.op \in VerifyOps
    /\ last.resp.body = "LOCKED"
    /\ \E r \in last.pre : r.otp = last.req.otp /\ r.attempts = 5
    /\ ByEmailPurpose(last.req.email, PurposeOf(last.req.op)) = {}

IssueOps == {"send_otp", "forgot_password"}

IssuedPurpose(op) == IF op = "send_otp" THEN REGISTRATION ELSE PASSWORD_RESET

RowsAfter(email, purpose) == {r \in otps' : r.email = email /\ r.purpose = purpose}

(* The step of send_otp or forgot_password that issues a challenge.        *)
Issues(op) ==
    /\ Handled(op)
    /\ op = "send_otp" => last'.resp.status # 400
    /\ op = "forgot_password" => UsersByEmail(last'.req.email) # {}

(* C3: after a new OTP is issued for a pair (email, purpose), the store    *)
(* holds for that pair the new challenge and no challenge issued before,   *)
(* and a verify for the pair succeeds only with the code issued last.      *)
C3_OnlyNewestCodeVerifies ==
    [][/\ \A op \in IssueOps :
            Issues(op) =>
                \E c \in Codes :
                    /\ issued'[last'.req.email][IssuedPurpose(op)] = c
                    /\ RowsAfter(last'.req.email, IssuedPurpose(op))
                         = {[email |-> last'.req.email, otp |-> c,
                             purpose |-> IssuedPurpose(op),
                             expiry_time |-> now + 10,
                             is_verified |-> FALSE, attempts |-> 0]}
       /\ \A op \in VerifyOps :
            Handled(op) /\ last'.resp.status = 200 =>
                last'.req.otp = issued[last'.req.email][PurposeOf(op)]]_vars

(* An issue has just replaced a challenge that carried another code.       *)
C3_Witness ==
    /\ last.req.op \in IssueOps
    /\ \E r \in last.pre :
          /\ r.purpose = IssuedPurpose(last.req.op)
          /\ r.otp # issued[last.req.email][r.purpose]
          /\ r \notin otps

(* C4 as stated: every verify made after expires_at fails with Expired,    *)
(* whatever the attempts count, and a verify that follows one that failed  *)
(* with Expired (no issue in between) fails with Expired as well.          *)
C4_ExpiredIdempotent ==
    [][\A op \in VerifyOps : Handled(op) =>
        /\ (\E r \in ByEmailPurpose(last'.req.email, PurposeOf(op)) :
                now > r.expiry_time) => last'.resp.body = "EXPIRED"
        /\ (last.req.op = op /\ last.req.email = last'.req.email
                /\ last.resp.body = "EXPIRED") => last'.resp.body = "EXPIRED"]_vars

(* C4 amended: a verify that finds a challenge whose expires_at has passed *)
(* fails - with Expired when attempts < 5, with Locked when attempts >= 5, *)
(* whatever the verified flag - and deletes the challenge; the verify that *)
(* follows it (no issue in between) fails with NotFound; no verify         *)
(* succeeds after expires_at.                                              *)
C4_ExpiredOnceThenNotFound ==
    [][\A op \in VerifyOps : Handled(op) =>
        LET rows == ByEmailPurpose(last'.req.email, PurposeOf(op))
        IN  /\ \A r \in rows : now > r.expiry_time =>
                   /\ last'.resp.body = IF r.attempts >= 5 THEN "LOCKED" ELSE "EXPIRED"
                   /\ RowsAfter(last'.req.email, PurposeOf(op)) = {}
            /\ last'.resp.body = "EXPIRED" =>
                   /\ last'.resp.status = 400
                   /\ \E r \in rows : now > r.expiry_time
            /\ (last.req.op = op /\ last.req.email = last'.req.email
                    /\ last.resp.body \in {"EXPIRED", "LOCKED"}) =>
                   /\ last'.resp.body = "NOT_FOUND"
                   /\ otps' = otps
            /\ last'.resp.status = 200 => \E r \in rows : now <= r.expiry_time]_vars

(* A verified challenge was found expired, with the right code supplied.   *)
C4_Witness ==
    /\ last.req.op \in VerifyOps
    /\ last.resp.body = "EXPIRED"
    /\ \E r \in last.pre : r.is_verified /\ r.otp = last.req.otp
    /\ ByEmailPurpose(last.req.email, PurposeOf(last.req.op)) = {}

(* C5 as stated: once a challenge is verified, every verify with its code  *)
(* succeeds and leaves it verified, and no verify call answers Expired or  *)
(* Locked for it.                                                          *)
C5_VerifiedIsTerminal ==
    [][\A op \in VerifyOps : Handled(op) =>
        \A r \in ByEmailPurpose(last'.req.email, PurposeOf(op)) :
            r.is_verified =>
                /\ last'.resp.body \notin {"EXPIRED", "LOCKED"}
                /\ r.otp = last'.req.otp =>
                       /\ last'.resp.status = 200
                       /\ RowsAfter(last'.req.email, PurposeOf(op)) = {r}]_vars

(* C5 amended: a verify with the code of an already verified challenge     *)
(* succeeds and leaves the challenge as it is, provided the challenge is   *)
(* unexpired and has attempts < 5; no verify call clears the verified flag *)
(* of a challenge it keeps, but a verified challenge still expires and     *)
(* still counts mismatches, and is deleted by the verify that finds it     *)
(* expired or locked.                                                      *)
C5_RepeatedVerifyWhileValid ==
    [][\A op \in VerifyOps : Handled(op) =>
        \A r \in ByEmailPurpose(last'.req.email, PurposeOf(op)) :
            r.is_verified =>
                /\ (r.otp = last'.req.otp /\ now <= r.expiry_time /\ r.attempts < 5) =>
                       /\ last'.resp.status = 200
                       /\ last'.resp.body = "VERIFIED"
                       /\ otps' = otps
                /\ \A q \in RowsAfter(last'.req.email, PurposeOf(op)) : q.is_verified
                /\ (now > r.expiry_time \/ r.attempts >= 5) =>
                       RowsAfter(last'.req.email, PurposeOf(op)) = {}]_vars

(* A verify has just succeeded on a challenge that was verified already.   *)
C5_Witness ==
    /\ last.req.op \in VerifyOps
    /\ last.resp.body = "VERIFIED"
    /\ \E r \in last.pre : r.is_verified /\ r \in otps

(* C6: a verify with a non-matching code on a challenge that is neither    *)
(* locked nor expired adds exactly 1 to attempts, leaves code, expires_at  *)
(* and verified unchanged, fails with InvalidCode (400) and reports        *)
(* 5 - (new attempts), a value in 0..4.                                    *)
C6_MismatchCountsOneAttempt ==
    [][\A op \in VerifyOps : Handled(op) =>
        LET rows == ByEmailPurpose(last'.req.email, PurposeOf(op))
        IN  /\ \A r \in rows :
                 (r.otp # last'.req.otp /\ r.attempts < 5 /\ now <= r.expiry_time) =>
                   /\ otps' = (otps \ {r}) \cup
                         {[email |-> r.email, otp |-> r.otp, purpose |-> r.purpose,
                           expiry_time |-> r.expiry_time,
                           is_verified |-> r.is_verified,
                           attempts |-> r.attempts + 1]}
                   /\ last'.resp.status = 400
                   /\ last'.resp.body = "INVALID_OTP"
                   /\ last'.resp.remaining = 5 - (r.attempts + 1)
                   /\ last'.resp.remaining \in 0..4
            /\ last'.resp.body = "INVALID_OTP" =>
                 \E r \in rows : r.otp # last'.req.otp /\ r.attempts < 5]_vars

(* The fifth mismatch has just been counted: 0 attempts remain.            *)
C6_Witness ==
    /\ last.req.op \in VerifyOps
    /\ last.resp.body = "INVALID_OTP"
    /\ last.resp.remaining = 0
    /\ \E r \in ByEmailPurpose(last.req.email, PurposeOf(last.req.op)) :
          r.attempts = 5 /\ r.otp # last.req.otp

Account(email) ==
    {u \in users : /\ u.email = email
                   /\ \A v \in users : v.email = email => v = u
                   /\ u.username \in DOMAIN profiles}

(* C8: on an unlocked account, consecutive logins with a wrong password    *)
(* count 1, 2, 3, 4 and answer 401 with 4, 3, 2, 1 attempts remaining,     *)
(* leaving lockout_until null; the 5th answers 429 and sets lockout_until  *)
(* to now + 15 minutes; a profile with fewer than 5 failures has no        *)
(* lockout.                                                                *)
C8_FiveFailuresLock ==
    [][/\ Handled("login") =>
            \A u \in Account(last'.req.email) :
                LET p == profiles[u.username]
                    q == profiles'[u.username]
                    k == p.failed_login_attempts
                IN  (u.password # last'.req.password /\ p.lockout_until = None
                        /\ k < 5) =>
                      /\ q.failed_login_attempts = k + 1
                      /\ k + 1 < 5 => /\ last'.resp.status = 401
                                      /\ last'.resp.remaining = 5 - (k + 1)
                                      /\ q.lockout_until = None
                      /\ k + 1 = 5 => /\ last'.resp.status = 429
                                      /\ last'.resp.body = "ACCOUNT_LOCKED"
                                      /\ q.lockout_until = now + 15
       /\ \A n \in DOMAIN profiles' :
            profiles'[n].failed_login_attempts < 5 =>
                profiles'[n].lockout_until = None]_vars

(* The fifth consecutive failure has just locked the account.              *)
C8_Witness ==
    /\ last.req.op = "login"
    /\ last.resp.status = 429
    /\ last.resp.body = "ACCOUNT_LOCKED"
    /\ \E p \in last.pre : p.failed_login_attempts = 4 /\ p.lockout_until = None
    /\ \E u \in Account(last.req.email) :
          /\ profiles[u.username].failed_login_attempts = 5
          /\ profiles[u.username].lockout_until = now + 15

(* C9: a login with the correct password on an account that is not locked  *)
(* succeeds, and every successful login leaves failed_attempts = 0 and     *)
(* lockout_until null and issues tokens, whatever the counter was.         *)
C9_SuccessResetsCounter ==
    [][Handled("login") =>
        \A u \in Account(last'.req.email) :
            LET p == profiles[u.username]
                q == profiles'[u.username]
            IN  /\ (u.password = last'.req.password
                        /\ (p.lockout_until = None \/ now >= p.lockout_until)) =>
                       last'.resp.status = 200
                /\ last'.resp.status = 200 =>
                       /\ q.failed_login_attempts = 0
                       /\ q.lockout_until = None
                       /\ last'.resp.tokens
                       /\ \E t \in outstanding' \ outstanding : t.user = u.username]_vars

(* A login has just succeeded on a profile that had counted failures.      *)
C9_Witness ==
    /\ last.req.op = "login"
    /\ last.resp.status = 200
    /\ \E p \in last.pre : p.failed_login_attempts \in 1..4
    /\ \E u \in Account(last.req.email) :
          profiles[u.username] = [failed_login_attempts |-> 0, lockout_until |-> None]

(* C10: while lockout_until is in the future every login for the account   *)
(* fails with AccountLocked (429), also with the correct password; it      *)
(* issues no token and leaves failed_attempts and lockout_until unchanged.  *)
C10_LockedRefusesEveryLogin ==
    [][Handled("login") =>
        \A u \in Account(last'.req.email) :
            LET p == profiles[u.username]
            IN  (p.lockout_until # None /\ now < p.lockout_until) =>
                   /\ last'.resp.status = 429
                   /\ last'.resp.body = "LOCKED_TRY_AGAIN"
                   /\ last'.resp.remaining = p.lockout_until - now
                   /\ ~last'.resp.tokens
                   /\ profiles' = profiles
                   /\ outstanding' = outstanding
                   /\ users' = users]_vars

(* A locked account has just refused a login that had the right password.  *)
C10_Witness ==
    /\ last.req.op = "login"
    /\ last.resp.body = "LOCKED_TRY_AGAIN"
    /\ \E u \in Account(last.req.email) :
          /\ u.password = last.req.password
          /\ now < profiles[u.username].lockout_until

----------------------------------------------------------------------------
(* What login answers when no account has the email.                       *)
NoAccountResponse == Plain(401, "INVALID_CREDENTIALS")

(* C11: login does not leak user existence: a login with a wrong password  *)
(* for an email that has an account which is not locked gets the same      *)
(* response, status and body, as a login for an email with no account.     *)
C11_LoginDoesNotLeakExistence ==
    [][Handled("login") =>
        \A u \in Account(last'.req.email) :
            (/\ ~is_locked_out(profiles[u.username])
             /\ u.password # last'.req.password) =>
                last'.resp = NoAccountResponse]_vars

(* C12: forgot-password answers every well-formed email with the same      *)
(* status (200) and the same body, whether or not the email is registered  *)
(* and whether or not the mail went out; only the store differs: a         *)
(* PASSWORD_RESET challenge is issued iff the email is registered.         *)
C12_ForgotPasswordUniform ==
    [][Handled("forgot_password") =>
        LET email == last'.req.email
            registered == UsersByEmail(email) # {}
        IN  /\ last'.resp = Plain(200, "GENERIC")
            /\ registered =>
                   \E c \in Codes :
                       /\ RowsAfter(email, PASSWORD_RESET)
                            = {NewOTP(email, PASSWORD_RESET, c)}
                       /\ issued'[email][PASSWORD_RESET] = c
            /\ ~registered => otps' = otps /\ issued' = issued
            /\ users' = users /\ profiles' = profiles
            /\ outstanding' = outstanding /\ blacklisted' = blacklisted]_vars

(* Forgot-password has just acknowledged a registered address with the     *)
(* generic answer and left a fresh challenge for it.                       *)
C12_Witness ==
    /\ last.req.op = "forgot_password"
    /\ last.resp = Plain(200, "GENERIC")
    /\ UsersByEmail(last.req.email) # {}
    /\ \E r \in ByEmailPurpose(last.req.email, PASSWORD_RESET) :
          ~r.is_verified /\ r.expiry_time = now + OTP_EXPIRY_MINUTES

(* The store holds what reset-password asks for: a challenge of the email  *)
(* with purpose PASSWORD_RESET, verified, that carries the supplied code.  *)
HoldsVerifiedReset(email, otp) ==
    \E r \in otps : /\ r.email = email
                    /\ r.purpose = PASSWORD_RESET
                    /\ r.is_verified
                    /\ r.otp = otp

(* C13: reset-password changes the password only if the store holds a      *)
(* verified PASSWORD_RESET challenge of the email with the supplied code   *)
(* and new_password = confirm_password; otherwise it answers 400 and the   *)
(* passwords, the token blacklist and the OTP store are unchanged.         *)
C13_ResetNeedsVerifiedChallenge ==
    [][Handled("reset_password") =>
        LET req == last'.req
            ok == /\ HoldsVerifiedReset(req.email, req.otp)
                  /\ req.password = req.confirm_password
        IN  /\ users' # users => ok
            /\ last'.resp.status = 200 => ok
            /\ ~ok => /\ last'.resp.status = 400
                      /\ users' = users
                      /\ blacklisted' = blacklisted
                      /\ otps' = otps]_vars

(* Reset-password has just refused the code of a challenge that is in the  *)
(* store but was never verified, with both passwords equal.                *)
C13_Witness ==
    /\ last.req.op = "reset_password"
    /\ last.resp.status = 400
    /\ last.req.password = last.req.confirm_password
    /\ \E r \in last.pre : r.otp = last.req.otp /\ ~r.is_verified
    /\ \E u \in users : u.email = last.req.email /\ u.password # last.req.password

(* C15: a password-reset code is single-use: a reset-password that         *)
(* succeeds deletes the PASSWORD_RESET challenge of the email, so a second *)
(* reset-password with the same email and code, with no forgot-password    *)
(* and verify in between, fails with 400 and changes no password.          *)
C15_ResetOtpSingleUse ==
    [][Handled("reset_password") =>
        LET req == last'.req
            again == /\ last.req.op = "reset_password"
                     /\ last.resp.status = 200
                     /\ last.req.email = req.email
                     /\ last.req.otp = req.otp
        IN  /\ last'.resp.status = 200 => RowsAfter(req.email, PASSWORD_RESET) = {}
            /\ (again \/ ByEmailPurpose(req.email, PASSWORD_RESET) = {}) =>
                   /\ last'.resp.status = 400
                   /\ users' = users]_vars

(* A reset-password with equal passwords and the code issued last has just *)
(* been refused: an earlier reset had consumed the challenge and revoked   *)
(* the tokens of the account.                                              *)
C15_Witness ==
    /\ last.req.op = "reset_password"
    /\ last.resp.status = 400
    /\ last.resp.errors = {"otp"}
    /\ last.req.password = last.req.confirm_password
    /\ last.req.otp = issued[last.req.email][PASSWORD_RESET]
    /\ last.pre = {}
    /\ \E u \in users, t \in outstanding :
          u.email = last.req.email /\ t.user = u.username /\ t.jti \in blacklisted

TokenOps == {"logout", "token_refresh", "list_notes"}

(* C14: after reset-password has answered 200 for a user, every session    *)
(* token issued to that user before the reset, refresh or access, is       *)
(* refused by every later request; there is no window in which an old      *)
(* token is still accepted.                                                *)
C14_ResetRevokesEveryToken ==
    [][\A op \in TokenOps : Handled(op) =>
        \A t \in outstanding, u \in users :
            (/\ last.req.op = "reset_password"
             /\ last.resp.status = 200
             /\ u.email = last.req.email
             /\ t.user = u.username
             /\ last'.req.token.jti = t.jti) =>
                last'.resp.status # 200]_vars

(* C16: logout with a supplied refresh token either invalidates the token  *)
(* and answers 200, or fails with the one InvalidToken error (400, same    *)
(* body): a token that an earlier logout invalidated gets the error of a   *)
(* malformed token, and it is never accepted by a later logout.            *)
C16_LogoutUniformInvalidToken ==
    [][Handled("logout") /\ last'.req.token # NoToken =>
        LET token == last'.req.token
        IN  /\ \/ /\ last'.resp = Plain(200, "LOGOUT_OK")
                  /\ token.jti \in blacklisted'
                  /\ token.jti \notin blacklisted
               \/ /\ last'.resp = Plain(400, "INVALID_TOKEN")
                  /\ blacklisted' = blacklisted
            /\ token.jti \in blacklisted => last'.resp.status = 400]_vars

(* Logout has just refused, with the error of a malformed token, a         *)
(* refresh token that an earlier logout or reset had invalidated.          *)
C16_Witness ==
    /\ last.req.op = "logout"
    /\ last.req.token.kind = "refresh"
    /\ last.req.token.jti \in blacklisted
    /\ last.resp = Plain(400, "INVALID_TOKEN")

KeyHandled == Handled("api_key")

(* The key id of the header the request carried. *)
KeyIdOf(req) == Split(req.header).key_id

(* What authenticate raises for a key id that no row carries.              *)
UnknownKeyFailure == Failed(Reraised(DoesNotExist))

(* C17: API-key authentication never yields a principal for a key id that  *)
(* is unknown, inactive or expired (now > expires_at): each of these cases *)
(* fails with AuthenticationFailed carrying one generic message, the same  *)
(* in the three cases, and a key with expires_at = null never expires.     *)
C17_NoPrincipalForBadKey ==
    [][KeyHandled /\ last'.req.header # <<>> =>
        LET key_id == KeyIdOf(last'.req)
            rows == {k \in DOMAIN api_keys : <<k>> = key_id}
            unknown == rows = {}
            inactive == \E k \in rows : ~api_keys[k].is_active
            expired == \E k \in rows : /\ api_keys[k].expires_at # None
                                        /\ now > api_keys[k].expires_at
            unsigned == ~Split(last'.req.header).has_hmac
        IN  /\ (unknown \/ inactive \/ expired) => last'.resp = UnknownKeyFailure
            /\ \A k \in rows :
                   (/\ api_keys[k].is_active
                    /\ api_keys[k].expires_at = None
                    /\ unsigned
                    /\ check_rate_limit(api_keys[k])) =>
                       last'.resp.principal.api_key = k]_vars

(* C18: whenever the X-API-Key header has a signature part (the text after *)
(* the first ':'), authentication succeeds only if that part equals        *)
(* HMAC-SHA256(key, method + absolute url + body + X-Timestamp); every     *)
(* header keyId:<anything else> is rejected with AuthenticationFailed.     *)
C18_SignaturePartMustMatch ==
    [][KeyHandled =>
        LET parsed == Split(last'.req.header)
            request == last'.req.request
            correct(k) == <<"hmac-sha256", k>>
                            \o request.method \o Origin \o request.path
                            \o request.body \o request.timestamp
        IN  parsed.has_hmac =>
                /\ last'.resp.status = 200 =>
                       parsed.provided_hmac = correct(last'.resp.principal.api_key)
                /\ (\A k \in DOMAIN api_keys : parsed.provided_hmac # correct(k)) =>
                       /\ last'.resp.status = 401
                       /\ last'.resp.principal = NoPrincipal]_vars

OtherwiseValid(req, k) ==
    LET parsed == Split(req.header)
    IN  /\ parsed.key_id = <<k>>
        /\ api_keys[k].is_active
        /\ ~(api_keys[k].expires_at # None /\ now > api_keys[k].expires_at)
        /\ \/ ~parsed.has_hmac
           \/ parsed.provided_hmac = Sign(k, req.request)

(* The requests of key k accepted so far in the hour that now is in.       *)
AcceptedThisHour(k) ==
    {n \in 1..Len(usage) :
        /\ usage[n].api_key = k
        /\ usage[n].timestamp \div MinutesPerHour = now \div MinutesPerHour}

(* C20: for a key with rate_limit = N and requests handled one at a time,  *)
(* within every hour exactly the first N otherwise-valid requests          *)
(* authenticate and every further one in that hour is rejected; the count  *)
(* starts again from zero in each new hour, whatever the hour before used  *)
(* (N = 0 admits none).                                                    *)
C20_FirstNPerHour ==
    [][KeyHandled =>
        \A k \in DOMAIN api_keys :
            OtherwiseValid(last'.req, k) =>
                IF Cardinality(AcceptedThisHour(k)) < api_keys[k].rate_limit
                THEN /\ last'.resp.status = 200
                     /\ last'.resp.principal.api_key = k
                ELSE /\ last'.resp.status = 401
                     /\ last'.resp.principal = NoPrincipal]_vars

(* A key that had used up its limit in an hour of the first day has just   *)
(* been accepted again in the same hour of the next day.                   *)
C20_Witness ==
    /\ last.req.op = "api_key"
    /\ last.resp.status = 200
    /\ now >= MinutesPerDay
    /\ \E k \in DOMAIN api_keys :
          /\ last.resp.principal.api_key = k
          /\ Cardinality({n \in 1..Len(usage) :
                             /\ usage[n].api_key = k
                             /\ usage[n].timestamp \div MinutesPerHour
                                  = (now - MinutesPerDay) \div MinutesPerHour})
               = api_keys[k].rate_limit
          /\ usage[Len(usage)].timestamp = now

----------------------------------------------------------------------------
(* The refusal a caller could tell from a failed authentication: HTTP 429. *)
TooManyRequests == 429

(* C21: a request rejected because the hourly count of its key has reached *)
(* rate_limit fails as a rate-limit error of its own, HTTP 429, and not as *)
(* AuthenticationFailed (401): with rate_limit = 2, three calls in one     *)
(* hour are answered 200, 200, 429.                                        *)
C21_RateLimitIs429 ==
    [][KeyHandled =>
        \A k \in DOMAIN api_keys :
            /\ OtherwiseValid(last'.req, k)
            /\ Cardinality(AcceptedThisHour(k)) >= api_keys[k].rate_limit
            => /\ last'.resp.status = TooManyRequests
               /\ last'.resp.body # Failed(Reraised(DoesNotExist)).body
               /\ last'.resp.body # Failed(Reraised(AuthenticationFailed(""))).body]_vars

(* C22: the bookkeeping after the checks is best-effort: a request that    *)
(* passed key lookup, expiry, signature and rate limit authenticates as    *)
(* (owning user, api_key) whether or not the update of last_used or the    *)
(* usage record could be written; no error reaches the caller.             *)
C22_BookkeepingBestEffort ==
    [][KeyHandled =>
        \A k \in DOMAIN api_keys :
            OtherwiseValid(last'.req, k) /\ check_rate_limit(api_keys[k])
            => last'.resp = Authenticated(api_keys[k])]_vars

----------------------------------------------------------------------------
(* permissions.py: the gates of the protected operations.                  *)
(* A request carries request.user (AnonymousUser or a User row with its    *)
(* profile, which may be missing, and the profile's role, which may be     *)
(* null) and request.auth (nothing, a JWT token, or the APIKey row that    *)
(* APIKeyAuthentication returned).                                         *)

MaxScopes == 2

(* models.py: Role, the strongest and the weakest level *)
SUPER_ADMIN == 1
GUEST == 7

Levels == SUPER_ADMIN..GUEST

Scopes == {"read", "write", "admin"}

NoProfile == [exists |-> FALSE, role |-> None]

ProfileStates ==
    {NoProfile} \cup {[exists |-> TRUE, role |-> r] : r \in Levels \cup {None}}

AnonymousUser == [username |-> "", is_authenticated |-> FALSE, profile |-> NoProfile]

User(username, profile) ==
    [username |-> username, is_authenticated |-> TRUE, profile |-> profile]

NoAuth == [kind |-> "none", scopes |-> {}]

JwtAuth == [kind |-> "token", scopes |-> {}]

APIKeyAuth(scopes) == [kind |-> "APIKey", scopes |-> scopes]

(* an outcome of a gate: it granted, it denied, or it raised *)
Granted == "granted"
Denied == "denied"
AttributeError == "AttributeError"

Outcome(b) == IF b THEN Granted ELSE Denied

(* hasattr(request.user, 'profile'): the reverse accessor raises for a    *)
(* user without a profile row, and hasattr answers False                   *)
hasattr_profile(user) == user.profile.exists

(* models.py: UserProfile.has_permission *)
UserProfile_has_permission(profile, required_level) ==
    IF profile.role = None
    THEN FALSE
    ELSE profile.role <= required_level

(* models.py: BlogPost.can_access *)
BlogPost_can_access(post, user) ==
    IF post.is_public /\ ~post.is_restricted
    THEN TRUE
    ELSE IF ~user.is_authenticated
    THEN FALSE
    ELSE IF ~user.profile.exists \/ user.profile.role = None
    THEN FALSE
    ELSE user.profile.role <= post.min_role_level

(* a public post that is restricted to the levels up to min_role_level *)
RestrictedPost(min_role_level) ==
    [is_public |-> TRUE, is_restricted |-> TRUE, min_role_level |-> min_role_level]

(* permissions.py: the four level gates.  request.user.profile.role.level *)
(* is read without a test of role, so a profile whose role is null makes   *)
(* the expression raise AttributeError.                                    *)

IsSuperAdmin(request) ==
    IF request.user.is_authenticated /\ hasattr_profile(request.user)
    THEN IF request.user.profile.role = None
         THEN AttributeError
         ELSE Outcome(request.user.profile.role = 1)
    ELSE Denied

(* Variant with a slip: the comparison excludes the boundary level. *)
IsAdmin_strict(request) ==
    IF request.user.is_authenticated /\ hasattr_profile(request.user)
    THEN IF request.user.profile.role = None
         THEN AttributeError
         ELSE Outcome(request.user.profile.role < 2)
    ELSE Denied

IsAdmin(request) ==
    IF request.user.is_authenticated /\ hasattr_profile(request.user)
    THEN IF request.user.profile.role = None
         THEN AttributeError
         ELSE Outcome(request.user.profile.role <= 2)
    ELSE Denied

IsMonitor(request) ==
    IF request.user.is_authenticated /\ hasattr_profile(request.user)
    THEN IF request.user.profile.role = None
         THEN AttributeError
         ELSE Outcome(request.user.profile.role <= 3)
    ELSE Denied

IsPremium(request) ==
    IF request.user.is_authenticated /\ hasattr_profile(request.user)
    THEN IF request.user.profile.role = None
         THEN AttributeError
         ELSE Outcome(request.user.profile.role <= 5)
    ELSE Denied

(* Variant with a slip: the gate of an open endpoint. *)
AllowAny(request) == Granted

(* rest_framework.permissions.IsAuthenticated *)
IsAuthenticated(request) == Outcome(request.user.is_authenticated)

(* permissions.py: HasAPIKeyScope.  The constructor is given one scope as *)
(* a str or a list of scopes.                                              *)

ScopeLists ==
    UNION {{s \in [1..m -> Scopes] : \A i, j \in 1..m : s[i] = s[j] => i = j} :
              m \in 0..MaxScopes}

RequiredScopes ==
    {[kind |-> "str", str |-> s, list |-> <<>>] : s \in Scopes}
        \cup {[kind |-> "list", str |-> "", list |-> l] : l \in ScopeLists}

HasAPIKeyScope_init(required_scopes) ==
    IF required_scopes.kind = "str"
    THEN <<required_scopes.str>>
    ELSE required_scopes.list

(* Variant with a slip: every required scope must be held. *)
HasAPIKeyScope_all(self_required_scopes, request) ==
    IF request.auth.kind = "none"
    THEN Denied
    ELSE IF request.auth.kind # "APIKey"
    THEN Denied
    ELSE Outcome(\A i \in DOMAIN self_required_scopes :
                     self_required_scopes[i] \in request.auth.scopes)

HasAPIKeyScope_has_permission(self_required_scopes, request) ==
    IF request.auth.kind = "none"
    THEN Denied
    ELSE IF request.auth.kind # "APIKey"
    THEN Denied
    ELSE Outcome(\E i \in DOMAIN self_required_scopes :
                     self_required_scopes[i] \in request.auth.scopes)

APIKeyOrUserAuth(request) ==
    IF request.user.is_authenticated
    THEN Granted
    ELSE IF request.auth.kind # "none"
    THEN Outcome(request.auth.kind = "APIKey")
    ELSE Denied

APIKeyOnly(request) ==
    IF request.auth.kind = "none"
    THEN Denied
    ELSE Outcome(request.auth.kind = "APIKey")

(* The gates, each with what its constructor or caller supplies. *)

NoScopes == [kind |-> "list", str |-> "", list |-> <<>>]

Gate(class, required_level, required_scopes) ==
    [class |-> class, required_level |-> required_level,
     required_scopes |-> required_scopes]

LevelGates == {"IsSuperAdmin", "IsAdmin", "IsMonitor", "IsPremium"}

Gates ==
    {Gate(c, None, NoScopes) :
        c \in LevelGates \cup {"IsAuthenticated", "APIKeyOrUserAuth", "APIKeyOnly"}}
    \cup {Gate("UserProfile.has_permission", l, NoScopes) : l \in Levels}
    \cup {Gate("BlogPost.can_access", l, NoScopes) : l \in Levels}
    \cup {Gate("HasAPIKeyScope", None, r) : r \in RequiredScopes}

has_permission(gate, request) ==
    CASE gate.class = "IsSuperAdmin" -> IsSuperAdmin(request)
      [] gate.class = "IsAdmin" -> IsAdmin(request)
      [] gate.class = "IsMonitor" -> IsMonitor(request)
      [] gate.class = "IsPremium" -> IsPremium(request)
      [] gate.class = "IsAuthenticated" -> IsAuthenticated(request)
      [] gate.class = "APIKeyOrUserAuth" -> APIKeyOrUserAuth(request)
      [] gate.class = "APIKeyOnly" -> APIKeyOnly(request)
      [] gate.class = "UserProfile.has_permission" ->
            IF hasattr_profile(request.user)
            THEN Outcome(UserProfile_has_permission(request.user.profile,
                                                    gate.required_level))
            ELSE AttributeError
      [] gate.class = "BlogPost.can_access" ->
            Outcome(BlogPost_can_access(RestrictedPost(gate.required_level),
                                        request.user))
      [] gate.class = "HasAPIKeyScope" ->
            HasAPIKeyScope_has_permission(
                HasAPIKeyScope_init(gate.required_scopes), request)

(* The requests a gate can meet.  An anonymous request has no auth; the    *)
(* user of a request authenticated by an API key is the owner of the key.  *)

Auths == {NoAuth, JwtAuth} \cup {APIKeyAuth(s) : s \in SUBSET Scopes}

GateRequests ==
    {[user |-> AnonymousUser, auth |-> NoAuth]}
        \cup {[user |-> User("a", p), auth |-> a] : p \in ProfileStates, a \in Auths}

NoGate == Gate("", None, NoScopes)

GateReq(gate, request) == [op |-> "has_permission", gate |-> gate, request |-> request]

(* one gate decides one request *)
check_permissions(gate, request) ==
    /\ last' = [req |-> GateReq(gate, request),
                resp |-> [outcome |-> has_permission(gate, request)],
                pre |-> {}]
    /\ UNCHANGED <<now, keyvars, contentvars, procs, otps, users, profiles, outstanding, blacklisted,
                   issued>>

(* The gates as functions: the request is chosen at the start, and every   *)
(* gate may then be put to it.                                             *)

InitGate ==
    /\ now = 0
    /\ otps = {}
    /\ users = {}
    /\ profiles = [u \in {} |-> NewProfile]
    /\ outstanding = {}
    /\ blacklisted = {}
    /\ api_keys = InitialKeys
    /\ cache = EmptyCache
    /\ usage = <<>>
    /\ notes = <<>>
    /\ posts = InitialPosts
    /\ issued = [e \in Emails |-> [p \in Purposes |-> ""]]
    /\ procs = NoProcs
    /\ \E request \in GateRequests :
          last = [req |-> [op |-> "request", gate |-> NoGate, request |-> request],
                  resp |-> [outcome |-> ""],
                  pre |-> {}]

NextGate == \E gate \in Gates : check_permissions(gate, last.req.request)

SpecGate == InitGate /\ [][NextGate]_vars

----------------------------------------------------------------------------
(* views.py, blog_views.py: the endpoints behind the gates.                *)
(* Three users: "a" is an Admin, "b" a Normal User, and the profile of     *)
(* "c" has no role (UserProfile.role is nullable, on_delete SET_NULL).     *)

AccessNames == {"a", "b", "c"}

AccessProfile(username) ==
    [exists |-> TRUE,
     role |-> CASE username = "a" -> 2
                [] username = "b" -> 6
                [] OTHER -> None]

AccessAuths == {NoAuth, APIKeyAuth({"read"}), APIKeyAuth({"write"})}

(* Whoever comes without credentials, every user with a session, and the  *)
(* owner of the API keys with each of them.                                *)
AccessRequests ==
    {[user |-> AnonymousUser, auth |-> NoAuth]}
        \cup {[user |-> User(u, AccessProfile(u)), auth |-> NoAuth] : u \in AccessNames}
        \cup {[user |-> User("b", AccessProfile("b")), auth |-> a] : a \in AccessAuths}

NoOwner == ""

AccessReq(op, request, pk, data) ==
    [op |-> op, request |-> request, pk |-> pk, data |-> data]

AccessResp(status, detail, data) ==
    [status |-> status, detail |-> detail, data |-> data]

NoData == [title |-> "", user |-> NoOwner, method |-> ""]

(* NotAuthenticated, as the exception handler of the framework answers it *)
NotAuthenticated == AccessResp(401, "NOT_AUTHENTICATED", <<>>)

(* an exception that is no APIException leaves the view: a server error *)
ServerError(exception) == AccessResp(500, exception, <<>>)

(* permissions.py: IsOwner.has_object_permission; a Note has the          *)
(* attribute user, a BlogPost has author and not user.                     *)
IsOwner_has_object_permission(request, obj) ==
    IF "user" \in DOMAIN obj
    THEN obj.user = request.user.username
    ELSE IF "author" \in DOMAIN obj
    THEN obj.author = request.user.username
    ELSE FALSE

(* views.py: NoteViewSet.get_queryset, newest first *)
RECURSIVE Filtered(_, _)
Filtered(rows, username) ==
    IF rows = <<>>
    THEN <<>>
    ELSE LET rest == Filtered(Tail(rows), username)
         IN  IF Head(rows).user = username
             THEN Append(rest, Head(rows))
             ELSE rest

get_queryset(request) == Filtered(notes, request.user.username)

Rows(queryset) == {queryset[i] : i \in DOMAIN queryset}

(* Variant with a slip: the queryset is every note. *)
NoteViewSet_list_all(request) ==
    LET req == AccessReq("notes_list", request, 0, NoData)
    IN  /\ UNCHANGED <<now, keyvars, contentvars, procs, otps, users, profiles,
                       outstanding, blacklisted, issued>>
        /\ IF IsAuthenticated(request) # Granted
           THEN Done(req, NotAuthenticated, {})
           ELSE Done(req, AccessResp(200, "", notes), Rows(notes))

(* NoteViewSet.list *)
NoteViewSet_list(request) ==
    LET req == AccessReq("notes_list", request, 0, NoData)
        queryset == get_queryset(request)
    IN  /\ UNCHANGED <<now, keyvars, contentvars, procs, otps, users, profiles,
                       outstanding, blacklisted, issued>>
        /\ IF IsAuthenticated(request) # Granted
           THEN Done(req, NotAuthenticated, {})
           ELSE Done(req, AccessResp(200, "", queryset), Rows(queryset))

(* NoteViewSet.retrieve: get_object looks the pk up in the queryset and    *)
(* then checks the object permissions                                      *)
NoteViewSet_retrieve(request, pk) ==
    LET req == AccessReq("notes_retrieve", request, pk, NoData)
        found == {obj \in Rows(get_queryset(request)) : obj.id = pk}
    IN  /\ UNCHANGED <<now, keyvars, contentvars, procs, otps, users, profiles,
                       outstanding, blacklisted, issued>>
        /\ IF IsAuthenticated(request) # Granted
           THEN Done(req, NotAuthenticated, {})
           ELSE IF found = {}
           THEN Done(req, AccessResp(404, "NOT_FOUND", <<>>), {})
           ELSE \E obj \in found :
                IF IsOwner_has_object_permission(request, obj)
                THEN Done(req, AccessResp(200, "", <<obj>>), {obj})
                ELSE Done(req, AccessResp(403, "PERMISSION_DENIED", <<>>), {obj})

(* Variant with a slip: an owner named in the body is kept. *)
serializer_save_body(validated_data, kwargs) ==
    IF validated_data.user # NoOwner
    THEN [user |-> validated_data.user, title |-> validated_data.title]
    ELSE [user |-> kwargs.user, title |-> validated_data.title]

(* Serializer.save with keyword arguments: they are laid over the         *)
(* validated data                                                          *)
serializer_save(validated_data, kwargs) ==
    [user |-> kwargs.user, title |-> validated_data.title]

(* NoteViewSet.create with perform_create; data is the validated body,     *)
(* which may name an owner                                                 *)
NoteViewSet_create(request, data) ==
    LET req == AccessReq("notes_create", request, 0, data)
    IN  /\ UNCHANGED <<now, keyvars, posts, otps, users, profiles,
                       outstanding, blacklisted, issued, procs>>
        /\ IF IsAuthenticated(request) # Granted
           THEN /\ Done(req, NotAuthenticated, {})
                /\ notes' = notes
           ELSE /\ Len(notes) < MaxNotes
                /\ LET saved == serializer_save(data, [user |-> request.user.username])
                       obj == [id |-> Len(notes) + 1, user |-> saved.user,
                               title |-> saved.title]
                   IN  /\ notes' = Append(notes, obj)
                       /\ Done(req, AccessResp(201, "", <<obj>>), {})

NoteBodies == [title : {"t"}, user : AccessNames \cup {NoOwner}, method : {"POST"}]

(* views.py: RSSFeedView.  APIView.get_permissions calls every entry of    *)
(* permission_classes to instantiate it; an entry that is an instance      *)
(* already, and no class, cannot be called.                                *)

RSSFeedView_permission_classes ==
    <<[gate |-> Gate("APIKeyOrUserAuth", None, NoScopes), is_class |-> TRUE],
      [gate |-> Gate("HasAPIKeyScope", None,
                     [kind |-> "str", str |-> "read", list |-> <<>>]),
       is_class |-> FALSE]>>

RSSFeedView_get(request) ==
    LET req == AccessReq("rss_feed", request, 0, NoData)
        permission_classes == RSSFeedView_permission_classes
    IN  /\ UNCHANGED <<now, keyvars, contentvars, procs, otps, users, profiles,
                       outstanding, blacklisted, issued>>
        /\ IF \E i \in DOMAIN permission_classes : ~permission_classes[i].is_class
           THEN Done(req, ServerError("TypeError"), {})
           ELSE IF \A i \in DOMAIN permission_classes :
                      has_permission(permission_classes[i].gate, request) = Granted
           THEN Done(req, AccessResp(200, "RSS", <<>>), {})
           ELSE IF request.user.is_authenticated
           THEN Done(req, AccessResp(403, "PERMISSION_DENIED", <<>>), {})
           ELSE Done(req, NotAuthenticated, {})

(* blog_views.py: update_delete_post *)

Methods == {"PUT", "DELETE"}

Slugs == DOMAIN InitialPosts \cup {"p0"}

PostBodies == [title : {"u"}, user : {NoOwner}, method : Methods]

update_delete_post(request, slug, data) ==
    LET req == AccessReq("update_delete_post", request, slug, data)
    IN  /\ UNCHANGED <<now, keyvars, notes, otps, users, profiles,
                       outstanding, blacklisted, issued, procs>>
        /\ IF IsAuthenticated(request) # Granted
           THEN /\ Done(req, NotAuthenticated, {})
                /\ posts' = posts
           ELSE IF slug \notin DOMAIN posts
           THEN /\ Done(req, AccessResp(404, "NOT_FOUND", <<>>), {})
                /\ posts' = posts
           ELSE LET post == posts[slug]
                    is_admin == IsAdmin(request)
                    is_owner == IsOwner_has_object_permission(request, post)
                IN  IF is_admin = AttributeError
                    THEN /\ Done(req, ServerError(AttributeError), {post})
                         /\ posts' = posts
                    ELSE IF ~(is_admin = Granted \/ is_owner)
                    THEN /\ Done(req, AccessResp(403, "Permission denied.", <<>>),
                                 {post})
                         /\ posts' = posts
                    ELSE IF data.method = "DELETE"
                    THEN /\ posts' = [s \in DOMAIN posts \ {slug} |-> posts[s]]
                         /\ Done(req, AccessResp(200, "Post deleted.", <<>>), {post})
                    ELSE /\ posts' = [posts EXCEPT ![slug].title = data.title]
                         /\ Done(req, AccessResp(200, "", <<posts'[slug]>>), {post})

InitAccess ==
    /\ now = 0
    /\ otps = {}
    /\ users = {}
    /\ profiles = [u \in {} |-> NewProfile]
    /\ outstanding = {}
    /\ blacklisted = {}
    /\ api_keys = InitialKeys
    /\ cache = EmptyCache
    /\ usage = <<>>
    /\ notes = <<>>
    /\ posts = InitialPosts
    /\ issued = [e \in Emails |-> [p \in Purposes |-> ""]]
    /\ procs = NoProcs
    /\ last = NoRequest

(* the gates as the endpoints declare them *)
AccessGates ==
    {gate \in Gates :
        /\ gate.required_level \in {None, 2}
        /\ gate.required_scopes \in {NoScopes, [kind |-> "str", str |-> "read",
                                                 list |-> <<>>]}}

NextAccess ==
    \/ \E gate \in AccessGates, request \in AccessRequests : check_permissions(gate, request)
    \/ \E request \in AccessRequests : NoteViewSet_list(request)
    \/ \E request \in AccessRequests, pk \in 1..MaxNotes :
           NoteViewSet_retrieve(request, pk)
    \/ \E request \in AccessRequests, data \in NoteBodies :
           NoteViewSet_create(request, data)
    \/ \E request \in AccessRequests : RSSFeedView_get(request)
    \/ \E request \in AccessRequests, slug \in Slugs, data \in PostBodies :
           update_delete_post(request, slug, data)

SpecAccess == InitAccess /\ [][NextAccess]_vars

----------------------------------------------------------------------------
(* The request that a gate of the given class has just decided. *)
Decided(class) ==
    /\ last.req.op = "has_permission"
    /\ last.req.gate.class = class

(* the scopes an endpoint declares, as a set *)
Declared(required_scopes) ==
    IF required_scopes.kind = "str"
    THEN {required_scopes.str}
    ELSE {required_scopes.list[i] : i \in DOMAIN required_scopes.list}

(* C23: HasAPIKeyScope(required) grants exactly when the principal of the  *)
(* request is an API key whose scopes share an element with the required   *)
(* scopes; it denies for an empty intersection, for an empty required set  *)
(* and for every principal that is not an API key.                         *)
C23_ScopeGateIsOverlap ==
    Decided("HasAPIKeyScope") =>
        LET auth == last.req.request.auth
            required == Declared(last.req.gate.required_scopes)
        IN  IF auth.kind = "APIKey" /\ auth.scopes \cap required # {}
            THEN last.resp.outcome = Granted
            ELSE last.resp.outcome = Denied

(* A key that holds one of two required scopes, and not the other, was     *)
(* granted.                                                                *)
C23_Witness ==
    /\ Decided("HasAPIKeyScope")
    /\ last.resp.outcome = Granted
    /\ last.req.gate.required_scopes.list = <<"read", "write">>
    /\ last.req.request.auth.scopes = {"write"}

(* The level a level-based gate requires. *)
RequiredLevel(gate) ==
    CASE gate.class = "IsSuperAdmin" -> 1
      [] gate.class = "IsAdmin" -> 2
      [] gate.class = "IsMonitor" -> 3
      [] gate.class = "IsPremium" -> 5
      [] gate.class = "UserProfile.has_permission" -> gate.required_level

(* A level-based gate has in state s decided a request of a user whose     *)
(* profile has a role.                                                     *)
LevelDecided(s) ==
    /\ s.req.op = "has_permission"
    /\ s.req.gate.class \in LevelGates \cup {"UserProfile.has_permission"}
    /\ s.req.request.user.is_authenticated
    /\ s.req.request.user.profile.exists
    /\ s.req.request.user.profile.role \in Levels

(* C25: every level-based gate agrees with actorLevel <= requiredLevel:    *)
(* for role levels 1..7 UserProfile.has_permission(L) grants iff           *)
(* level <= L, and IsSuperAdmin, IsAdmin, IsMonitor, IsPremium grant iff   *)
(* level <= 1, 2, 3, 5; so a principal that passes one gate passes every   *)
(* gate that requires a numerically larger level.                          *)
C25_LevelGatesAgree ==
    [][/\ LevelDecided(last') =>
            last'.resp.outcome =
                Outcome(last'.req.request.user.profile.role
                            <= RequiredLevel(last'.req.gate))
       /\ /\ LevelDecided(last) /\ LevelDecided(last')
          /\ last.resp.outcome = Granted
          /\ RequiredLevel(last.req.gate) <= RequiredLevel(last'.req.gate)
          => last'.resp.outcome = Granted]_vars

(* IsAdmin granted a user whose role is exactly at its level. *)
C25_Witness ==
    /\ Decided("IsAdmin")
    /\ last.req.request.user.profile.role = 2
    /\ last.resp.outcome = Granted

(* C24: the RSS feed admits both kinds of principal: a request of a user   *)
(* with a session and no API key is permitted, and a request authenticated *)
(* by an API key is permitted exactly when the key has the scope 'read';   *)
(* a request without a principal is rejected.                              *)
C24_RssAdmitsUserAndReadKey ==
    [][Handled("rss_feed") =>
        LET request == last'.req.request
        IN  /\ request.user.is_authenticated /\ request.auth.kind # "APIKey"
               => last'.resp.status = 200
            /\ request.auth.kind = "APIKey"
               => (last'.resp.status = 200 <=> "read" \in request.auth.scopes)
            /\ ~request.user.is_authenticated /\ request.auth.kind # "APIKey"
               => last'.resp.status \in {401, 403}]_vars

(* A request that comes with no authenticated user and no API key. *)
Unauthenticated(request) ==
    ~request.user.is_authenticated /\ request.auth.kind = "none"

NoteOps == {"notes_list", "notes_retrieve", "notes_create"}

AuthorOf(slug) == posts[slug].author

(* C27: PUT or DELETE on a blog post is permitted exactly when the         *)
(* requester is an admin (role level <= 2) or the author of the post; the  *)
(* ownership is decided independently of the level, so the author is       *)
(* permitted whatever the state of their role, a profile with no role      *)
(* included; who is neither gets 403 and the post is unchanged.            *)
C27_AdminOrAuthorMayChangePost ==
    [][Handled("update_delete_post")
          /\ last'.req.request.user.is_authenticated
          /\ last'.req.pk \in DOMAIN posts
          => LET user == last'.req.request.user
                 slug == last'.req.pk
                 admin == user.profile.exists /\ user.profile.role \in 1..2
             IN  IF admin \/ AuthorOf(slug) = user.username
                 THEN /\ last'.resp.status = 200
                      /\ IF last'.req.data.method = "DELETE"
                         THEN slug \notin DOMAIN posts'
                         ELSE posts'[slug].title = last'.req.data.title
                 ELSE /\ last'.resp.status = 403
                      /\ posts' = posts]_vars

(* The notes of the table that user u owns. *)
NotesOf(username) == {notes[i] : i \in {j \in DOMAIN notes : notes[j].user = username}}

(* C28: whatever notes the users have created, the list returned to an     *)
(* authenticated user u holds exactly the notes whose owner is u; u gets   *)
(* 200 for a note of their own, and 404, with nothing of the note in the   *)
(* answer, for a note that another user owns.                              *)
C28_NoteIsolation ==
    [][/\ Handled("notes_list") /\ last'.req.request.user.is_authenticated
          => /\ last'.resp.status = 200
             /\ Rows(last'.resp.data) = NotesOf(last'.req.request.user.username)
             /\ Len(last'.resp.data)
                  = Cardinality(NotesOf(last'.req.request.user.username))
       /\ Handled("notes_retrieve") /\ last'.req.request.user.is_authenticated
          /\ last'.req.pk \in DOMAIN notes
          => IF notes[last'.req.pk].user = last'.req.request.user.username
             THEN /\ last'.resp.status = 200
                  /\ last'.resp.data = <<notes[last'.req.pk]>>
             ELSE /\ last'.resp.status = 404
                  /\ last'.resp.data = <<>>
                  /\ last'.pre = {}]_vars

(* With notes of two owners in the table, one of them was refused the      *)
(* note of the other.                                                      *)
C28_Witness ==
    /\ last.req.op = "notes_retrieve"
    /\ last.resp.status = 404
    /\ last.req.pk \in DOMAIN notes
    /\ NotesOf(last.req.request.user.username) # {}
    /\ notes[last.req.pk].user # last.req.request.user.username

(* C29: creating a note as authenticated user u adds exactly one note, its *)
(* owner is u whatever owner the request body names, and every note that   *)
(* existed stays as it was.                                                *)
C29_CreateAssignsOwner ==
    [][Handled("notes_create") /\ last'.req.request.user.is_authenticated
          => /\ last'.resp.status = 201
             /\ Len(notes') = Len(notes) + 1
             /\ notes'[Len(notes')].user = last'.req.request.user.username
             /\ notes'[Len(notes')].title = last'.req.data.title
             /\ \A i \in DOMAIN notes : notes'[i] = notes[i]
             /\ posts' = posts]_vars

(* A note was created by a request whose body named another user, who      *)
(* already has a note of their own, as the owner.                          *)
C29_Witness ==
    /\ last.req.op = "notes_create"
    /\ last.resp.status = 201
    /\ last.req.data.user \notin {NoOwner, last.req.request.user.username}
    /\ NotesOf(last.req.data.user) # {}
    /\ notes[Len(notes)].user = last.req.request.user.username

(* A send-otp whose mail could not be dispatched has just been handled. *)
DispatchFailed(s) ==
    /\ s.req.op = "send_otp"
    /\ "email_sent" \in DOMAIN s.req
    /\ ~s.req.email_sent

(* C30: issuing a challenge does not depend on the mail: when the dispatch *)
(* of send-otp fails, the new challenge (fresh code, no attempts, not      *)
(* verified, expiring in 10 minutes) is stored all the same and, while it  *)
(* has not expired, can be verified; the challenge that was there before   *)
(* is gone, and the caller is told of the failure with a 500.              *)
C30_IssuedThoughDispatchFails ==
    [][/\ Handled("send_otp") /\ DispatchFailed(last')
          => /\ last'.resp.status = 500
             /\ \E c \in Codes :
                   /\ issued'[last'.req.email][REGISTRATION] = c
                   /\ {r \in otps' : r.email = last'.req.email}
                        = {[email |-> last'.req.email, otp |-> c,
                            purpose |-> REGISTRATION,
                            expiry_time |-> now + OTP_EXPIRY_MINUTES,
                            is_verified |-> FALSE, attempts |-> 0]}
       /\ Handled("send_otp") /\ last'.resp.status = 500 => DispatchFailed(last')
       /\ /\ DispatchFailed(last)
          /\ Handled("verify_otp")
          /\ last'.req.email = last.req.email
          /\ last'.req.otp = issued[last.req.email][REGISTRATION]
          /\ \A r \in ByEmailPurpose(last.req.email, REGISTRATION) :
                now <= r.expiry_time
          => /\ last'.resp.status = 200
             /\ \E r \in otps' : r.email = last.req.email /\ r.is_verified]_vars

(* The mail of a challenge could not be sent; the challenge took the       *)
(* place of an earlier one with another code and is one that verify_otp    *)
(* accepts.                                                                *)
C30_Witness ==
    /\ DispatchFailed(last)
    /\ last.resp.status = 500
    /\ \E q \in last.pre :
          /\ q.otp # issued[last.req.email][REGISTRATION]
          /\ q \notin otps
    /\ \E r \in ByEmailPurpose(last.req.email, REGISTRATION) :
          /\ r.otp = issued[last.req.email][REGISTRATION]
          /\ ~is_expired(r) /\ ~is_locked(r) /\ ~r.is_verified

----------------------------------------------------------------------------
(* C32: in every reachable state the lockout_until of a profile is null or *)
(* strictly later than the current time: it is nulled on a successful      *)
(* login and once the lockout period has elapsed.                          *)
C32_LockoutNullOrInFuture ==
    \A n \in DOMAIN profiles :
        profiles[n].lockout_until = None \/ profiles[n].lockout_until > now

(* C39: in every state of a profile lockout_until is non-null exactly when *)
(* failed_login_attempts >= 5; the counter changes only by +1, on a failed *)
(* password check of an account that is not locked, and to 0, on a         *)
(* successful login, never by the passing of time; so after a lockout has  *)
(* elapsed without a successful login one more wrong password locks the    *)
(* account again.                                                          *)
C39_LockoutIffFiveFailures ==
    [][/\ \A n \in DOMAIN profiles' :
            profiles'[n].lockout_until # None
                <=> profiles'[n].failed_login_attempts >= MAX_LOGIN_ATTEMPTS
       /\ \A n \in DOMAIN profiles :
            LET p == profiles[n]
                q == profiles'[n]
            IN  q.failed_login_attempts # p.failed_login_attempts =>
                  /\ Handled("login")
                  /\ \E u \in Account(last'.req.email) : u.username = n
                  /\ \/ /\ q.failed_login_attempts = p.failed_login_attempts + 1
                        /\ ~(p.lockout_until # None /\ now < p.lockout_until)
                        /\ \E u \in users : u.username = n
                                              /\ u.password # last'.req.password
                     \/ /\ q.failed_login_attempts = 0
                        /\ last'.resp.status = 200
       /\ Handled("login") =>
            \A u \in Account(last'.req.email) :
                LET p == profiles[u.username]
                    q == profiles'[u.username]
                IN  /\ p.lockout_until # None
                    /\ now >= p.lockout_until
                    /\ u.password # last'.req.password
                    => /\ q.failed_login_attempts = p.failed_login_attempts + 1
                       /\ q.lockout_until = now + LOCKOUT_DURATION_MINUTES
                       /\ last'.resp.status = 429]_vars

(* A lockout had elapsed, and the next wrong password locked the account   *)
(* again with the sixth failure counted.                                   *)
C39_Witness ==
    /\ last.req.op = "login"
    /\ last.resp.body = "ACCOUNT_LOCKED"
    /\ \E p \in last.pre :
          /\ p.failed_login_attempts = MAX_LOGIN_ATTEMPTS
          /\ p.lockout_until # None
          /\ p.lockout_until <= now
    /\ \E u \in Account(last.req.email) :
          /\ profiles[u.username].failed_login_attempts = MAX_LOGIN_ATTEMPTS + 1
          /\ profiles[u.username].lockout_until = now + LOCKOUT_DURATION_MINUTES

(* C38: consumption honours expiry and lockout: register and reset-password *)
(* succeed only while the verified challenge they rely on is unexpired     *)
(* (now <= expires_at) and not locked (attempts < 5); a challenge verified *)
(* before expires_at cannot be used after it.                              *)
C38_ConsumptionHonoursExpiry ==
    [][/\ Handled("register") /\ last'.resp.status = 201
          => \E r \in ByEmail(last'.req.email) :
                /\ r.is_verified
                /\ now <= r.expiry_time
                /\ r.attempts < MAX_ATTEMPTS
       /\ Handled("reset_password") /\ last'.resp.status = 200
          => \E r \in ByEmailPurpose(last'.req.email, PASSWORD_RESET) :
                /\ r.is_verified
                /\ r.otp = last'.req.otp
                /\ now <= r.expiry_time
                /\ r.attempts < MAX_ATTEMPTS]_vars

(* C36: the email identifies an account: after any sequence of send-otp,   *)
(* verify, register, forgot-password, verify-reset-otp and reset-password  *)
(* requests no two user records share an email, so the lookup of the user  *)
(* by email that login makes finds at most one user.                       *)
C36_EmailIdentifiesAccount ==
    \A u \in users, v \in users : u.email = v.email => u = v

(* The count of the key in the hour that now is in, as the cache holds it. *)
CountThisHour(c, api_key) ==
    IF RateKey(api_key) \in DOMAIN c /\ c[RateKey(api_key)].expires > now
    THEN c[RateKey(api_key)].value
    ELSE 0

C35_NoRoleIsDenied ==
    /\ last.req.op = "has_permission"
    /\ last.req.request.user.is_authenticated
    /\ \/ /\ ~last.req.request.user.profile.exists
          /\ last.req.gate.class \in LevelGates \cup {"BlogPost.can_access"}
       \/ /\ last.req.request.user.profile.exists
          /\ last.req.request.user.profile.role = None
          /\ last.req.gate.class \in
                LevelGates \cup {"BlogPost.can_access", "UserProfile.has_permission"}
    => last.resp.outcome = Denied

(* C40: a signature binds the whole request tuple: for a given key, the    *)
(* signature of one (method, url, body, timestamp) validates for no        *)
(* different tuple, in particular not for one obtained by moving           *)
(* characters across a field boundary.                                     *)
C40_SignatureBindsTuple ==
    /\ last.req.op = "validate_tuple"
    /\ last.resp.verdict = "valid"
    => last.req.presented = last.req.signed

(* C31: in every reachable state, also when requests for the same pair     *)
(* interleave their reads and writes of the store, the store holds at most *)
(* one OTP challenge per (email, purpose).                                 *)
C31_OneChallengePerPair ==
    \A r \in otps, q \in otps :
        r.email = q.email /\ r.purpose = q.purpose => r = q

(* C33: under any interleaving of concurrent requests for one API key in   *)
(* one hour window, the number of requests that pass the rate-limit check  *)
(* never exceeds the key's rate_limit, and no increment of the hourly      *)
(* counter is lost: once no request is in progress the counter is the      *)
(* number of requests that passed.                                         *)
PassedThisHour(k) ==
    Cardinality({i \in 1..Len(usage) : usage[i].api_key = api_keys[k].key})

C33_RateLimitAtomic ==
    \A k \in DOMAIN api_keys :
        /\ PassedThisHour(k) <= api_keys[k].rate_limit
        /\ (\A w \in DOMAIN procs : procs[w].pc = "idle") =>
               cache_get(RateKey(api_keys[k]), 0) = PassedThisHour(k)

(* C34: under any interleaving of concurrent verify requests against one   *)
(* challenge, at most MAX_ATTEMPTS + 1 wrong codes are ever compared with  *)
(* the challenge's code before it is locked, and a challenge that is       *)
(* locked never becomes verified.                                          *)
C34_OneFreeGuessAtMost ==
    [][/\ Mismatches(Workers)' <= MAX_ATTEMPTS + 1
       /\ \A q \in otps : is_locked(q) /\ ~q.is_verified =>
              \A r \in otps' : SamePk(r, q) => ~r.is_verified]_vars

====
